---- MODULE Spec2Model ----
(***************************************************************************)
(* Outbound WhatsApp dispatch of BarbeariAgendamento: the circuit breaker  *)
(* of the default-session transport (evolutionWhatsapp.js, both profiles), *)
(* the per-barbershop instance router (whatsappMessageService.js) with the *)
(* provisioning flow that writes the same documents (whatsappRoutes.js),   *)
(* the daily reminder batch (schedulerService.js) and its deployment as    *)
(* PM2 cluster workers.                                                    *)
(*                                                                         *)
(* Node.js runs every handler on one event loop: a handler runs without    *)
(* interruption up to its next await, so every action below is the code    *)
(* between two awaits.  Console logging and the lastLogTime field that     *)
(* only throttles it are left out.                                         *)
(***************************************************************************)
EXTENDS Integers, Sequences, FiniteSets, TLC

VARIABLES
  profile,     \* which evolutionWhatsapp.js the deployment runs: "backoff" | "simple"
  envOk,       \* EVOLUTION_API_URL and EVOLUTION_API_KEY are both set
  now,         \* Date.now()
  cb,          \* the circuitBreaker object of the exponential-backoff profile
  sb,          \* the circuitBreaker object of the fixed-cooldown profile
  inflight,    \* default-session axios.post calls awaiting their response
  tenants,     \* Barbershop.whatsappConfig per barbershop
  rt,          \* sendWhatsAppMessage calls in progress
  last,        \* the latest step of a sendWhatsAppConfirmation call, with the
               \* breaker and the requests in flight as they were before it
  prov,        \* the provisioning request (connect, disconnect, status,
               \* webhook) in progress
  batch,       \* the sendDailyReminders run of this process
  cluster,     \* the PM2 workers, each with its own scheduler and breaker
  post,        \* a recipient phone and the address each send path posts for it
  health,      \* mongoose.connection.readyState and the latest GET /health
  wahaSend,    \* the sendWhatsAppConfirmation call of the WAHA transport
  day,         \* a booking and the sendDailyReminders runs that selected it
  sse,         \* the clients and clientMetadata maps of sseService.js
  sentAt       \* Date.now() at the post of each default-session request in flight

vars ==
  <<profile, envOk, now, cb, sb, inflight, tenants, rt, last, prov, batch,
    cluster, post, health, wahaSend, day, sse, sentAt>>

---------------------------------------------------------------------------
(* Program constants *)

failureThreshold == 3
baseDelayMs == 30000
maxDelayMs == 3600000
backoffMultiplier == 2
simpleFailureThreshold == 5
cooldownMs == 60000
\* axios.post(url, payload, {headers, timeout: 10000})
requestTimeoutMs == 10000
\* lastFailureTime: null
NoTime == -1

(* Bounds of the model *)

\* Date.now() when the process starts
StartTime == 1
\* instants, a base delay apart, at which the clock is read
MaxTicks == 2
\* default-session requests awaiting the gateway at the same time
MaxInFlight == 10
\* lifetime failures after which no further send is started
MaxFailures == 11
\* rejected sends after which no further send is rejected
MaxBlocked == 2
\* lifetime failures after which no further sendWhatsAppMessage call is started
MaxRouterFailures == 4
\* instants, a request timeout apart, at which the clock is read during
\* routed sends
MaxRouterTicks == 3
\* sleeps of createInstance, each after the deletion of an old session, that
\* the clock is followed through
MaxConnectWaits == 1

Min(a, b) == IF a <= b THEN a ELSE b
Max(a, b) == IF a >= b THEN a ELSE b

\* Math.round(ms / 1000) for ms >= 0
RoundSeconds(ms) == (ms + 500) \div 1000

\* a timestamp used as a number: null converts to 0
TimeOf(t) == IF t = NoTime THEN 0 ELSE t

---------------------------------------------------------------------------
(* The exponential-backoff circuit breaker *)

InitBreaker ==
  [state |-> "CLOSED", failures |-> 0, consecutiveFailures |-> 0,
   totalBlockedRequests |-> 0, currentDelayMs |-> baseDelayMs,
   lastFailureTime |-> NoTime]

\* recordFailure with the threshold compared by > instead of >=
recordFailureStrictThreshold(b, t) ==
  LET b1 == [b EXCEPT !.failures = @ + 1,
                      !.consecutiveFailures = @ + 1,
                      !.lastFailureTime = t]
  IN IF b1.consecutiveFailures > failureThreshold /\ b1.state # "OPEN"
     THEN [b1 EXCEPT !.state = "OPEN", !.currentDelayMs = baseDelayMs]
     ELSE IF b1.state = "OPEN"
          THEN [b1 EXCEPT !.currentDelayMs =
                            Min(@ * backoffMultiplier, maxDelayMs)]
          ELSE b1

\* recordFailure without the Math.min that caps the delay
recordFailureUncapped(b, t) ==
  LET b1 == [b EXCEPT !.failures = @ + 1,
                      !.consecutiveFailures = @ + 1,
                      !.lastFailureTime = t]
  IN IF b1.consecutiveFailures >= failureThreshold /\ b1.state # "OPEN"
     THEN [b1 EXCEPT !.state = "OPEN", !.currentDelayMs = baseDelayMs]
     ELSE IF b1.state = "OPEN"
          THEN [b1 EXCEPT !.currentDelayMs = @ * backoffMultiplier]
          ELSE b1

\* recordFailure that does not note the time of the failure
recordFailureNoTimestamp(b, t) ==
  LET b1 == [b EXCEPT !.failures = @ + 1,
                      !.consecutiveFailures = @ + 1]
  IN IF b1.consecutiveFailures >= failureThreshold /\ b1.state # "OPEN"
     THEN [b1 EXCEPT !.state = "OPEN", !.currentDelayMs = baseDelayMs]
     ELSE IF b1.state = "OPEN"
          THEN [b1 EXCEPT !.currentDelayMs =
                            Min(@ * backoffMultiplier, maxDelayMs)]
          ELSE b1

recordFailure(b, t) ==
  LET b1 == [b EXCEPT !.failures = @ + 1,
                      !.consecutiveFailures = @ + 1,
                      !.lastFailureTime = t]
  IN IF b1.consecutiveFailures >= failureThreshold /\ b1.state # "OPEN"
     THEN [b1 EXCEPT !.state = "OPEN", !.currentDelayMs = baseDelayMs]
     ELSE IF b1.state = "OPEN"
          THEN [b1 EXCEPT !.currentDelayMs =
                            Min(@ * backoffMultiplier, maxDelayMs)]
          ELSE b1

\* recordSuccess that leaves consecutiveFailures as it was
recordSuccessKeepsCount(b) ==
  LET wasOpen == b.state = "OPEN"
      previousFailures == b.failures
      b1 == [b EXCEPT !.state = "CLOSED", !.currentDelayMs = baseDelayMs]
  IN IF wasOpen \/ previousFailures > 0
     THEN [b1 EXCEPT !.totalBlockedRequests = 0]
     ELSE b1

\* recordSuccess that resets the blocked counter only when it found OPEN
recordSuccessResetOnlyIfOpen(b) ==
  LET wasOpen == b.state = "OPEN"
      b1 == [b EXCEPT !.consecutiveFailures = 0,
                      !.state = "CLOSED",
                      !.currentDelayMs = baseDelayMs]
  IN IF wasOpen
     THEN [b1 EXCEPT !.totalBlockedRequests = 0]
     ELSE b1

\* recordSuccess that takes one failure off the count instead of clearing it
recordSuccessStepsDown(b) ==
  LET wasOpen == b.state = "OPEN"
      previousFailures == b.failures
      b1 == [b EXCEPT !.consecutiveFailures = @ - 1,
                      !.state = "CLOSED",
                      !.currentDelayMs = baseDelayMs]
  IN IF wasOpen \/ previousFailures > 0
     THEN [b1 EXCEPT !.totalBlockedRequests = 0]
     ELSE b1

\* recordSuccess that closes the breaker only when it is not OPEN
recordSuccessClosesOnlyProbe(b) ==
  LET wasOpen == b.state = "OPEN"
      previousFailures == b.failures
      b1 == [b EXCEPT !.consecutiveFailures = 0,
                      !.state = IF wasOpen THEN "OPEN" ELSE "CLOSED",
                      !.currentDelayMs = baseDelayMs]
  IN IF wasOpen \/ previousFailures > 0
     THEN [b1 EXCEPT !.totalBlockedRequests = 0]
     ELSE b1

recordSuccess(b) ==
  LET wasOpen == b.state = "OPEN"
      previousFailures == b.failures
      b1 == [b EXCEPT !.consecutiveFailures = 0,
                      !.state = "CLOSED",
                      !.currentDelayMs = baseDelayMs]
  IN IF wasOpen \/ previousFailures > 0
     THEN [b1 EXCEPT !.totalBlockedRequests = 0]
     ELSE b1

\* canRequest whose rejection also restarts the wait
canRequestRestartsWait(b, t) ==
  IF b.state = "CLOSED"
  THEN [ret |-> TRUE, cb |-> b]
  ELSE IF t - TimeOf(b.lastFailureTime) >= b.currentDelayMs
       THEN [ret |-> TRUE, cb |-> [b EXCEPT !.state = "HALF_OPEN"]]
       ELSE [ret |-> FALSE, cb |-> [b EXCEPT !.totalBlockedRequests = @ + 1,
                                             !.lastFailureTime = t]]

\* the returned boolean and the breaker as the call leaves it
canRequest(b, t) ==
  IF b.state = "CLOSED"
  THEN [ret |-> TRUE, cb |-> b]
  ELSE IF t - TimeOf(b.lastFailureTime) >= b.currentDelayMs
       THEN [ret |-> TRUE, cb |-> [b EXCEPT !.state = "HALF_OPEN"]]
       ELSE [ret |-> FALSE, cb |-> [b EXCEPT !.totalBlockedRequests = @ + 1]]

getStatus(b, t) ==
  [state |-> b.state,
   failures |-> b.failures,
   consecutiveFailures |-> b.consecutiveFailures,
   totalBlockedRequests |-> b.totalBlockedRequests,
   currentDelayMs |-> b.currentDelayMs,
   nextRetryIn |-> IF b.lastFailureTime # NoTime /\ b.lastFailureTime # 0
                   THEN Max(0, b.currentDelayMs - (t - b.lastFailureTime))
                   ELSE 0]

---------------------------------------------------------------------------
(* The fixed-cooldown circuit breaker *)

InitSimpleBreaker ==
  [state |-> "CLOSED", failures |-> 0, lastFailureTime |-> NoTime]

simpleRecordFailure(b, t) ==
  LET b1 == [b EXCEPT !.failures = @ + 1, !.lastFailureTime = t]
  IN IF b1.failures >= simpleFailureThreshold
     THEN [b1 EXCEPT !.state = "OPEN"]
     ELSE b1

simpleRecordSuccess(b) == [b EXCEPT !.failures = 0, !.state = "CLOSED"]

\* simpleCanRequest that still rejects at exactly cooldownMs
simpleCanRequestStrictlyAfter(b, t) ==
  IF b.state = "CLOSED"
  THEN [ret |-> TRUE, cb |-> b]
  ELSE IF t - TimeOf(b.lastFailureTime) > cooldownMs
       THEN [ret |-> TRUE, cb |-> [b EXCEPT !.state = "HALF_OPEN"]]
       ELSE [ret |-> FALSE, cb |-> b]

simpleCanRequest(b, t) ==
  IF b.state = "CLOSED"
  THEN [ret |-> TRUE, cb |-> b]
  ELSE IF t - TimeOf(b.lastFailureTime) >= cooldownMs
       THEN [ret |-> TRUE, cb |-> [b EXCEPT !.state = "HALF_OPEN"]]
       ELSE [ret |-> FALSE, cb |-> b]

---------------------------------------------------------------------------
(* sendWhatsAppConfirmation: one message through the shared default session *)

\* the gateway's answer to one axios.post: an HTTP status, or no response at
\* all (timeout after 10 s, connection refused)
NoResponse == 0
Responses == {200, 400, 401, 404, 500, NoResponse}

NoResult ==
  [success |-> FALSE, via |-> "none", blocked |-> FALSE, retryIn |-> 0,
   status |-> NoResponse, error |-> "none"]
ConfigMissing == [NoResult EXCEPT !.error = "Configuracao ausente"]
Blocked(retryIn) ==
  [NoResult EXCEPT !.blocked = TRUE, !.retryIn = retryIn,
                   !.error = "temporariamente indisponivel"]
SimpleBlocked == [NoResult EXCEPT !.error = "circuit breaker aberto"]
Sent == [NoResult EXCEPT !.success = TRUE]
Failed(resp) == [NoResult EXCEPT !.status = resp, !.error = "gateway"]

\* confirmationStart that consults the breaker before the configuration
confirmationStartBreakerFirst(b, t, env) ==
  LET c == canRequest(b, t)
  IN IF ~c.ret
     THEN [breaker |-> c.cb, posted |-> FALSE,
           result |-> Blocked(RoundSeconds(getStatus(c.cb, t).nextRetryIn))]
     ELSE IF ~env
          THEN [breaker |-> c.cb, posted |-> FALSE, result |-> ConfigMissing]
          ELSE [breaker |-> c.cb, posted |-> TRUE, result |-> NoResult]

\* The call up to its await of axios.post, or to its early return:
\* [breaker, posted, result]; result is meaningful when posted is FALSE.
confirmationStart(b, t, env) ==
  IF ~env
  THEN [breaker |-> b, posted |-> FALSE, result |-> ConfigMissing]
  ELSE LET c == canRequest(b, t)
       IN IF ~c.ret
          THEN [breaker |-> c.cb, posted |-> FALSE,
                result |-> Blocked(RoundSeconds(getStatus(c.cb, t).nextRetryIn))]
          ELSE [breaker |-> c.cb, posted |-> TRUE, result |-> NoResult]

\* The call from the gateway's answer to its return: [breaker, result]
confirmationFinish(b, t, resp) ==
  IF resp = 200
  THEN [breaker |-> recordSuccess(b), result |-> Sent]
  ELSE [breaker |-> recordFailure(b, t), result |-> Failed(resp)]

simpleConfirmationStart(b, t, env) ==
  IF ~env
  THEN [breaker |-> b, posted |-> FALSE, result |-> ConfigMissing]
  ELSE LET c == simpleCanRequest(b, t)
       IN IF ~c.ret
          THEN [breaker |-> c.cb, posted |-> FALSE, result |-> SimpleBlocked]
          ELSE [breaker |-> c.cb, posted |-> TRUE, result |-> NoResult]

simpleConfirmationFinish(b, t, resp) ==
  IF resp = 200
  THEN [breaker |-> simpleRecordSuccess(b), result |-> Sent]
  ELSE [breaker |-> simpleRecordFailure(b, t), result |-> Failed(resp)]

\* Every request in flight may still fail: none is started that could push
\* the lifetime failure counter past MaxFailures.
RoomToFail(n) == n + inflight < MaxFailures

\* what a step of sendWhatsAppConfirmation did: "config" (returned for want
\* of configuration), "blocked" (rejected by the breaker), "admitted" (posted
\* to the gateway), "success" or "failure" (the gateway's answer handled)
Step(op, b) == [op |-> op, before |-> b, inflightBefore |-> inflight]

startOp(env, s) ==
  IF ~env THEN "config" ELSE IF s.posted THEN "admitted" ELSE "blocked"

finishOp(resp) == IF resp = 200 THEN "success" ELSE "failure"

\* A caller (scheduler, request handler) invokes sendWhatsAppConfirmation
SendStart ==
  /\ profile = "backoff"
  /\ inflight < MaxInFlight
  /\ RoomToFail(cb.failures)
  /\ LET s == confirmationStart(cb, now, envOk)
     IN /\ s.breaker.totalBlockedRequests <= MaxBlocked
        /\ cb' = s.breaker
        /\ inflight' = IF s.posted THEN inflight + 1 ELSE inflight
        /\ sentAt' = IF s.posted THEN Append(sentAt, now) ELSE sentAt
        /\ last' = Step(startOp(envOk, s), cb)
  /\ UNCHANGED <<profile, envOk, now, sb, tenants, rt, prov, batch, cluster, post, health, wahaSend, day, sse>>

\* the sequence without its i-th element
Without(seq, i) == SubSeq(seq, 1, i - 1) \o SubSeq(seq, i + 1, Len(seq))

\* the first position of each value of the sequence
Oldest(seq) == {i \in 1..Len(seq) : \A j \in 1..(i - 1) : seq[j] # seq[i]}

\* The gateway answers one of the requests in flight, or the request fails
\* without an answer (connection refused, or the timeout of the post)
SendFinish(resp) ==
  /\ profile = "backoff"
  /\ inflight > 0
  /\ cb' = confirmationFinish(cb, now, resp).breaker
  /\ inflight' = inflight - 1
  /\ \E i \in Oldest(sentAt) : sentAt' = Without(sentAt, i)
  /\ last' = Step(finishOp(resp), cb)
  /\ UNCHANGED <<profile, envOk, now, sb, tenants, rt, prov, batch, cluster, post, health, wahaSend, day, sse>>

SimpleSendStart ==
  /\ profile = "simple"
  /\ inflight < MaxInFlight
  /\ RoomToFail(sb.failures)
  /\ LET s == simpleConfirmationStart(sb, now, envOk)
     IN /\ sb' = s.breaker
        /\ inflight' = IF s.posted THEN inflight + 1 ELSE inflight
        /\ sentAt' = IF s.posted THEN Append(sentAt, now) ELSE sentAt
        /\ last' = Step(startOp(envOk, s), sb)
  /\ UNCHANGED <<profile, envOk, now, cb, tenants, rt, prov, batch, cluster, post, health, wahaSend, day, sse>>

SimpleSendFinish(resp) ==
  /\ profile = "simple"
  /\ inflight > 0
  /\ sb' = simpleConfirmationFinish(sb, now, resp).breaker
  /\ inflight' = inflight - 1
  /\ \E i \in Oldest(sentAt) : sentAt' = Without(sentAt, i)
  /\ last' = Step(finishOp(resp), sb)
  /\ UNCHANGED <<profile, envOk, now, cb, tenants, rt, prov, batch, cluster, post, health, wahaSend, day, sse>>

\* Time passes.  The clock is read at instants a base delay apart, up to
\* MaxTicks of them, and once the maximum delay after the start; and after
\* each of these at the instant a post made then times out.
TickMs == baseDelayMs
Instants ==
  {StartTime + i * TickMs + k * requestTimeoutMs :
     i \in 0..MaxTicks, k \in 0..1}
  \cup {StartTime + maxDelayMs + k * requestTimeoutMs : k \in 0..1}

\* Every axios.post carries a timeout: a request in flight has been answered
\* or has timed out once requestTimeoutMs have passed since its post, so the
\* clock is not read later than that while the request is in flight.
Tick(t) ==
  /\ \A i \in 1..Len(sentAt) : t <= sentAt[i] + requestTimeoutMs
  /\ t > now
  /\ now' = t
  /\ last' = Step("tick", IF profile = "backoff" THEN cb ELSE sb)
  /\ UNCHANGED <<profile, envOk, cb, sb, inflight, tenants, rt, prov, batch, cluster, post, health, wahaSend, day, sse, sentAt>>

NoTenants == <<>>
NoCalls == <<>>
NoProvisioning == <<>>
NoBatch == <<>>
NoWorkers == <<>>
NoPost == <<>>
NoHealth == <<>>
NoWaha == <<>>
NoDay == <<>>
NoSse == <<>>
NoSends == <<>>

Init ==
  /\ profile \in {"backoff", "simple"}
  /\ envOk \in BOOLEAN
  /\ now = StartTime
  /\ cb = InitBreaker
  /\ sb = InitSimpleBreaker
  /\ inflight = 0
  /\ tenants = NoTenants
  /\ rt = NoCalls
  /\ last = [op |-> "none", before |-> IF profile = "backoff" THEN cb ELSE sb,
             inflightBefore |-> 0]
  /\ prov = NoProvisioning
  /\ batch = NoBatch
  /\ cluster = NoWorkers
  /\ post = NoPost
  /\ health = NoHealth
  /\ wahaSend = NoWaha
  /\ day = NoDay
  /\ sse = NoSse
  /\ sentAt = NoSends

Next ==
  \/ SendStart
  \/ \E resp \in Responses : SendFinish(resp)
  \/ SimpleSendStart
  \/ \E resp \in Responses : SimpleSendFinish(resp)
  \/ \E t \in Instants : Tick(t)

Spec == Init /\ [][Next]_vars

---------------------------------------------------------------------------
(* Properties of the circuit breaker, checked under Spec *)

Backoff == profile = "backoff"
Simple == profile = "simple"

\* what canRequest() would return if it were called now
CanProceedNow == canRequest(cb, now).ret
SimpleCanProceedNow == simpleCanRequest(sb, now).ret

\* C1: Breaker threshold.  With fewer than failureThreshold failures since
\* the last success the breaker is CLOSED and canRequest() returns true; the
\* failure that brings the count to exactly failureThreshold leaves the
\* breaker OPEN with canRequest() returning false; and while the breaker is
\* not CLOSED canRequest() returns true only if the time since the last
\* failure is at least the current delay.  In both breaker profiles.
BreakerThreshold ==
  /\ Backoff =>
       /\ cb.consecutiveFailures < failureThreshold =>
            cb.state = "CLOSED" /\ CanProceedNow
       /\ last.op = "failure" /\ cb.consecutiveFailures = failureThreshold =>
            cb.state = "OPEN" /\ ~CanProceedNow
       /\ cb.state # "CLOSED" /\ CanProceedNow =>
            now - cb.lastFailureTime >= cb.currentDelayMs
  /\ Simple =>
       /\ sb.failures < simpleFailureThreshold =>
            sb.state = "CLOSED" /\ SimpleCanProceedNow
       /\ last.op = "failure" /\ sb.failures = simpleFailureThreshold =>
            sb.state = "OPEN" /\ ~SimpleCanProceedNow
       /\ sb.state # "CLOSED" /\ SimpleCanProceedNow =>
            now - sb.lastFailureTime >= cooldownMs

\* the third failure in a row has just opened a breaker that had never failed
ThresholdReached ==
  /\ Backoff
  /\ last.op = "failure"
  /\ last.before.state = "CLOSED"
  /\ cb.failures = failureThreshold
  /\ cb.consecutiveFailures = failureThreshold
  /\ cb.state = "OPEN"
  /\ ~CanProceedNow

\* C2: Failed probe grows the backoff.  A failure recorded while the breaker
\* is HALF_OPEN returns it to OPEN with currentDelayMs multiplied by
\* backoffMultiplier (capped at maxDelayMs) relative to its value before the
\* probe.
FailedProbeGrowsDelay ==
  Backoff /\ last.op = "failure" /\ last.before.state = "HALF_OPEN" =>
    /\ cb.state = "OPEN"
    /\ cb.currentDelayMs =
         Min(last.before.currentDelayMs * backoffMultiplier, maxDelayMs)

\* C3 as stated: state = CLOSED implies consecutiveFailures = 0
ClosedImpliesNoFailures ==
  /\ Backoff /\ cb.state = "CLOSED" => cb.consecutiveFailures = 0
  /\ Simple /\ sb.state = "CLOSED" => sb.failures = 0

\* C3: state = CLOSED implies consecutiveFailures < failureThreshold, in both
\* breaker profiles, and consecutiveFailures is 0 right after a success.
ClosedBelowThreshold ==
  /\ Backoff =>
       /\ cb.state = "CLOSED" => cb.consecutiveFailures < failureThreshold
       /\ last.op = "success" => cb.consecutiveFailures = 0
  /\ Simple =>
       /\ sb.state = "CLOSED" => sb.failures < simpleFailureThreshold
       /\ last.op = "success" => sb.failures = 0

\* a failure below the threshold has left the breaker CLOSED with a count of 2
ClosedWithFailures ==
  /\ Backoff
  /\ last.op = "failure"
  /\ cb.state = "CLOSED"
  /\ cb.consecutiveFailures = failureThreshold - 1

\* the breaker as recordSuccess() leaves it
Recovered(b) ==
  /\ b.consecutiveFailures = 0
  /\ b.state = "CLOSED"
  /\ b.currentDelayMs = baseDelayMs
  /\ b.totalBlockedRequests = 0

\* C4: Breaker recovery.  In every reachable state of the breaker a single
\* recordSuccess() leaves consecutiveFailures = 0, state = CLOSED,
\* currentDelayMs = baseDelayMs and totalBlockedRequests = 0; so is the
\* breaker after every gateway success.
BreakerRecovery ==
  Backoff =>
    /\ Recovered(recordSuccess(cb))
    /\ last.op = "success" => Recovered(cb)

\* a probe's success has closed a breaker that had rejected calls
RecoveredAfterBlocks ==
  /\ Backoff
  /\ last.op = "success"
  /\ last.before.state = "HALF_OPEN"
  /\ last.before.totalBlockedRequests > 0
  /\ last.before.consecutiveFailures > failureThreshold
  /\ Recovered(cb)

\* x to the k-th power
RECURSIVE Pow(_, _)
Pow(x, k) == IF k = 0 THEN 1 ELSE x * Pow(x, k - 1)

\* C5: Bounded exponential growth.  baseDelayMs <= currentDelayMs <=
\* maxDelayMs in every reachable state; the failure that opens the breaker
\* sets the delay to baseDelayMs and every failure recorded while it is OPEN
\* multiplies the delay by backoffMultiplier up to maxDelayMs, so that k
\* failures while OPEN give min(baseDelayMs * 2^k, maxDelayMs).
BoundedDelayGrowth ==
  Backoff =>
    /\ baseDelayMs <= cb.currentDelayMs /\ cb.currentDelayMs <= maxDelayMs
    /\ \E k \in 0..MaxFailures :
         cb.currentDelayMs = Min(baseDelayMs * Pow(backoffMultiplier, k), maxDelayMs)
    /\ last.op = "failure" /\ last.before.state # "OPEN" /\ cb.state = "OPEN" =>
         cb.currentDelayMs = baseDelayMs
    /\ last.op = "failure" /\ last.before.state = "OPEN" =>
         /\ cb.state = "OPEN"
         /\ cb.currentDelayMs =
              Min(last.before.currentDelayMs * backoffMultiplier, maxDelayMs)

\* a failure while OPEN found the doubled delay above the maximum and capped it
DelayCapped ==
  /\ Backoff
  /\ last.op = "failure"
  /\ last.before.state = "OPEN"
  /\ last.before.currentDelayMs < maxDelayMs
  /\ last.before.currentDelayMs * backoffMultiplier > maxDelayMs
  /\ cb.currentDelayMs = maxDelayMs

\* C6: a send rejected by the breaker posts nothing to the gateway and changes
\* nothing in the breaker but totalBlockedRequests, which it increments: the
\* instant at which the next probe is admitted stays the same.
BlockedSendOnlyCounts ==
  Backoff /\ last.op = "blocked" =>
    /\ inflight = last.inflightBefore
    /\ cb = [last.before EXCEPT !.totalBlockedRequests = @ + 1]
    /\ cb.lastFailureTime + cb.currentDelayMs =
         last.before.lastFailureTime + last.before.currentDelayMs
    /\ ~CanProceedNow

\* a second send in a row has been rejected by the open breaker
BlockedTwice ==
  /\ Backoff
  /\ last.op = "blocked"
  /\ last.before.state = "OPEN"
  /\ last.before.totalBlockedRequests = 1
  /\ cb.totalBlockedRequests = 2

---------------------------------------------------------------------------
(* sendWhatsAppMessage: the per-barbershop instance router *)

Shops == {"shopA", "shopB"}
\* the sendWhatsAppMessage calls that may be in progress at the same time
Calls == {"call1"}

\* Barbershop.findById found no document
NoShop == [exists |-> FALSE]
NoInstance == "null"
InstanceOf(s) == s

\* every whatsappConfig the provisioning flow can have left behind
TenantConfigs ==
  {NoShop} \cup
  [exists : {TRUE}, enabled : BOOLEAN,
   connectionStatus : {"connected", "connecting", "disconnected"},
   hasInstance : BOOLEAN, lastCheckedAt : {NoTime}]

instanceName(s, cfg) == IF cfg.hasInstance THEN InstanceOf(s) ELSE NoInstance

\* hasOwnWhatsApp that does not look at the connection status
hasOwnWhatsAppAnyStatus(s, cfg) ==
  /\ cfg.exists
  /\ cfg.enabled = TRUE
  /\ instanceName(s, cfg) # NoInstance

hasOwnWhatsApp(s, cfg) ==
  /\ cfg.exists
  /\ cfg.enabled = TRUE
  /\ cfg.connectionStatus = "connected"
  /\ instanceName(s, cfg) # NoInstance

\* sessionInvalid taking every 4xx status for a lost session
sessionInvalidAny4xx(resp) == resp >= 400 /\ resp < 500

\* error.response?.status === 404 || error.response?.status === 401
sessionInvalid(resp) == resp = 404 \/ resp = 401

\* Barbershop.findByIdAndUpdate(barbershopId, {connectionStatus, lastCheckedAt})
markDisconnected(ts, s, t) ==
  IF ts[s].exists
  THEN [ts EXCEPT ![s].connectionStatus = "disconnected",
                  ![s].lastCheckedAt = t]
  ELSE ts

SentViaBarbershop == [Sent EXCEPT !.via = "barbershop"]

\* A call of sendWhatsAppMessage.  pc is the await the call is suspended at;
\* the other fields record what the call has done so far: the posts made to
\* the barbershop's instance and the answer, the findByIdAndUpdate calls
\* issued, the invocations of sendWhatsAppConfirmation with the posts they
\* made and the value they returned, and the value the call returned.
\* postedAt is Date.now() at the axios.post the call awaits, checkedAt the
\* `new Date()` in the update it awaits.
IdleCall ==
  [pc |-> "idle", shop |-> "shopA",
   instancePosts |-> 0, instanceDone |-> FALSE, instanceResp |-> NoResponse,
   postedAt |-> NoTime, checkedAt |-> NoTime,
   updates |-> 0, updated |-> FALSE,
   defaultCalls |-> 0, defaultPosts |-> 0, defaultResult |-> NoResult,
   result |-> NoResult]

Active(c) == rt[c].pc \notin {"idle", "returned"}
ActiveCalls == Cardinality({c \in Calls : Active(c)})

\* `return await sendWhatsAppConfirmation(customerPhone, message)` up to its
\* await of axios.post or its early return: the call and the breaker after it
fallbackToDefault(call, b, t, env) ==
  LET s == confirmationStart(b, t, env)
      c1 == [call EXCEPT !.defaultCalls = @ + 1]
  IN [breaker |-> s.breaker,
      call |-> IF s.posted
               THEN [c1 EXCEPT !.pc = "default", !.defaultPosts = @ + 1,
                               !.postedAt = t]
               ELSE [c1 EXCEPT !.pc = "returned", !.defaultResult = s.result,
                               !.result = s.result]]

\* sendViaInstance up to its await of axios.post
sendViaInstance(call, b, t) ==
  [breaker |-> b,
   call |-> [call EXCEPT !.pc = "instance", !.instancePosts = @ + 1,
                         !.postedAt = t]]

\* afterInstanceError that handles 404 and forgets 401
afterInstanceErrorOnly404(resp) == IF resp = 404 THEN "update" ELSE "catch"

\* what follows a failed post to the barbershop's instance: the status is
\* written and the default session used, or the error is thrown to
\* sendWhatsAppMessage, whose catch uses the default session
afterInstanceError(resp) == IF sessionInvalid(resp) THEN "update" ELSE "catch"

\* A caller invokes sendWhatsAppMessage(barbershopId, customerPhone, message)
\* with a phone string: the call awaits Barbershop.findById
RouteStart(c, s) ==
  /\ profile = "backoff"
  /\ ~Active(c)
  /\ cb.failures + ActiveCalls < MaxRouterFailures
  /\ cb.totalBlockedRequests + ActiveCalls < MaxBlocked
  /\ rt' = [rt EXCEPT ![c] = [IdleCall EXCEPT !.pc = "lookup", !.shop = s]]
  /\ UNCHANGED <<profile, envOk, now, cb, sb, inflight, tenants, last, prov, batch, cluster, post, health, wahaSend, day, sse, sentAt>>

\* findById resolves with the barbershop's whatsappConfig, or rejects
LookupDone(c, dbOk) ==
  /\ rt[c].pc = "lookup"
  /\ LET cfg == tenants[rt[c].shop]
         r == IF dbOk /\ hasOwnWhatsApp(rt[c].shop, cfg)
              THEN sendViaInstance(rt[c], cb, now)
              ELSE fallbackToDefault(rt[c], cb, now, envOk)
     IN /\ rt' = [rt EXCEPT ![c] = r.call]
        /\ cb' = r.breaker
  /\ UNCHANGED <<profile, envOk, now, sb, inflight, tenants, last, prov, batch, cluster, post, health, wahaSend, day, sse, sentAt>>

\* the gateway answers the post to the barbershop's instance, or it times out
\* or is never reached.  sendViaInstance reads no configuration before it
\* posts: with a variable of the default session unset the gateway still
\* answers, with whatever status it has for the request
InstanceDone(c, resp) ==
  /\ rt[c].pc = "instance"
  /\ LET c1 == [rt[c] EXCEPT !.instanceDone = TRUE, !.instanceResp = resp,
                             !.postedAt = NoTime]
         r == IF resp = 200
              THEN [breaker |-> cb,
                    call |-> [c1 EXCEPT !.pc = "returned",
                                        !.result = SentViaBarbershop]]
              ELSE IF afterInstanceError(resp) = "update"
                   THEN [breaker |-> cb,
                         call |-> [c1 EXCEPT !.pc = "update",
                                             !.updates = @ + 1,
                                             !.checkedAt = now]]
                   ELSE fallbackToDefault(c1, cb, now, envOk)
     IN /\ rt' = [rt EXCEPT ![c] = r.call]
        /\ cb' = r.breaker
  /\ UNCHANGED <<profile, envOk, now, sb, inflight, tenants, last, prov, batch, cluster, post, health, wahaSend, day, sse, sentAt>>

\* findByIdAndUpdate resolves, having written the status and the date it
\* was issued with, or rejects, having written nothing; either way the call
\* goes on to the default session
UpdateDone(c, dbOk) ==
  /\ rt[c].pc = "update"
  /\ tenants' = IF dbOk
                THEN markDisconnected(tenants, rt[c].shop, rt[c].checkedAt)
                ELSE tenants
  /\ LET r == fallbackToDefault([rt[c] EXCEPT !.updated = dbOk,
                                              !.checkedAt = NoTime],
                                cb, now, envOk)
     IN /\ rt' = [rt EXCEPT ![c] = r.call]
        /\ cb' = r.breaker
  /\ UNCHANGED <<profile, envOk, now, sb, inflight, last, prov, batch, cluster, post, health, wahaSend, day, sse, sentAt>>

\* confirmationThrows for a sendWhatsAppConfirmation that rejects on failure
confirmationThrowsOnFailure(result) == ~result.success

\* sendWhatsAppConfirmation catches the error of its post and returns it as a
\* value: nothing is thrown into sendViaInstance, whose caller's catch would
\* otherwise invoke the default session again
confirmationThrows(result) == FALSE

\* the gateway answers the post to the default session, or it times out
DefaultDone(c, resp) ==
  /\ rt[c].pc = "default"
  /\ LET f == confirmationFinish(cb, now, resp)
         c1 == [rt[c] EXCEPT !.postedAt = NoTime]
         r == IF confirmationThrows(f.result) /\ rt[c].updated
                 /\ rt[c].defaultCalls = 1
              THEN fallbackToDefault(c1, f.breaker, now, envOk)
              ELSE [breaker |-> f.breaker,
                    call |-> [c1 EXCEPT !.pc = "returned",
                                           !.defaultResult = f.result,
                                           !.result = f.result]]
     IN /\ cb' = r.breaker
        /\ rt' = [rt EXCEPT ![c] = r.call]
  /\ UNCHANGED <<profile, envOk, now, sb, inflight, tenants, last, prov, batch, cluster, post, health, wahaSend, day, sse, sentAt>>

RouterInstants == {StartTime + i * requestTimeoutMs : i \in 0..MaxRouterTicks}

\* a post of the router's calls is answered or times out within
\* requestTimeoutMs: the clock is not read later than that while it is awaited
PostsAllow(t) ==
  \A c \in Calls :
    rt[c].pc \in {"instance", "default"} => t <= rt[c].postedAt + requestTimeoutMs

\* as Tick, for the requests of the router's calls
RouterTick(t) ==
  /\ PostsAllow(t)
  /\ t > now
  /\ now' = t
  /\ UNCHANGED <<profile, envOk, cb, sb, inflight, tenants, rt, last, prov, batch, cluster, post, health, wahaSend, day, sse, sentAt>>

InitRouter ==
  /\ profile = "backoff"
  /\ envOk \in BOOLEAN
  /\ now = StartTime
  /\ cb = InitBreaker
  /\ sb = InitSimpleBreaker
  /\ inflight = 0
  /\ tenants \in [Shops -> TenantConfigs]
  /\ rt = [c \in Calls |-> IdleCall]
  /\ last = [op |-> "none", before |-> cb, inflightBefore |-> 0]
  /\ prov = NoProvisioning
  /\ batch = NoBatch
  /\ cluster = NoWorkers
  /\ post = NoPost
  /\ health = NoHealth
  /\ wahaSend = NoWaha
  /\ day = NoDay
  /\ sse = NoSse
  /\ sentAt = NoSends

NextRouter ==
  \/ \E c \in Calls, s \in Shops : RouteStart(c, s)
  \/ \E c \in Calls, dbOk \in BOOLEAN : LookupDone(c, dbOk)
  \/ \E c \in Calls, resp \in Responses : InstanceDone(c, resp)
  \/ \E c \in Calls, dbOk \in BOOLEAN : UpdateDone(c, dbOk)
  \/ \E c \in Calls, resp \in Responses : DefaultDone(c, resp)
  \/ \E t \in RouterInstants : RouterTick(t)

SpecRouter == InitRouter /\ [][NextRouter]_vars

---------------------------------------------------------------------------
(* Properties of the router, checked under SpecRouter *)

SessionGone == {401, 404}

\* C7 as stated: Router fallback on session-invalid.  When the post to a
\* barbershop's own instance is answered 401 or 404, the router (a) invokes
\* the default-session send once, (b) has written connectionStatus =
\* disconnected for that barbershop by then, and (c) returns what the
\* default-session send returned.
RouterFallbackWritesStatus ==
  \A c \in Calls :
    rt[c].instanceDone /\ rt[c].instanceResp \in SessionGone =>
      /\ rt[c].pc = "update" => rt[c].defaultCalls = 0
      /\ rt[c].pc # "update" =>
           /\ rt[c].defaultCalls = 1
           /\ tenants[rt[c].shop].connectionStatus = "disconnected"
      /\ rt[c].pc = "returned" =>
           /\ rt[c].result = rt[c].defaultResult
           /\ rt[c].result.via # "barbershop"

\* C7: Router fallback on session-invalid.  When the post to a barbershop's
\* own instance is answered 401 or 404, the router issues one write of
\* connectionStatus = disconnected for that barbershop and awaits it, then
\* invokes the default-session send once, and returns what that send
\* returned.  The status is disconnected from the moment the write has
\* succeeded; when the database rejects the write the status stays connected
\* and the default-session send is invoked all the same.
RouterFallbackOnSessionInvalid ==
  \A c \in Calls :
    rt[c].instanceDone /\ rt[c].instanceResp \in SessionGone =>
      /\ rt[c].updates = 1
      /\ rt[c].pc = "update" =>
           /\ rt[c].defaultCalls = 0
           /\ tenants[rt[c].shop].connectionStatus = "connected"
      /\ rt[c].pc # "update" =>
           /\ rt[c].defaultCalls = 1
           /\ tenants[rt[c].shop].connectionStatus =
                IF rt[c].updated THEN "disconnected" ELSE "connected"
      /\ rt[c].pc = "returned" =>
           /\ rt[c].result = rt[c].defaultResult
           /\ rt[c].result.via # "barbershop"

\* a 401 from the barbershop's instance, the status written, and the message
\* delivered through the default session
FallbackDelivered ==
  \E c \in Calls :
    /\ rt[c].pc = "returned"
    /\ rt[c].instanceDone /\ rt[c].instanceResp = 401
    /\ rt[c].updated
    /\ tenants[rt[c].shop].connectionStatus = "disconnected"
    /\ rt[c].defaultPosts = 1
    /\ rt[c].result.success

GenericFailure(c) ==
  rt[c].instanceDone /\ rt[c].instanceResp \notin SessionGone \cup {200}

\* C8: Router no-fallback on generic error.  After a failure of the dedicated
\* send other than 401/404 the router returns that error without any attempt
\* through the default session: one routed message, at most one gateway send.
NoFallbackOnGenericError ==
  \A c \in Calls :
    GenericFailure(c) =>
      /\ rt[c].defaultCalls = 0
      /\ rt[c].instancePosts + rt[c].defaultPosts <= 1
      /\ rt[c].pc = "returned" => rt[c].result = Failed(rt[c].instanceResp)

\* C9: the router writes to a barbershop only while handling a 401 or 404
\* answered to that barbershop's dedicated send, and what it writes is
\* connectionStatus = disconnected (with lastCheckedAt, the date read when
\* the answer was handled); every other step of
\* the router, the default-session sends included, leaves every barbershop's
\* whatsappConfig as it was.
WritesOnlyOnSessionInvalid ==
  /\ [](\A c \in Calls :
          rt[c].updates > 0 =>
            rt[c].instanceDone /\ rt[c].instanceResp \in SessionGone)
  /\ [][\A s \in Shops :
          tenants'[s] # tenants[s] =>
            \E c \in Calls :
              /\ rt[c].shop = s
              /\ rt[c].pc = "update"
              /\ rt[c].instanceResp \in SessionGone
              /\ tenants'[s] = [tenants[s] EXCEPT
                                  !.connectionStatus = "disconnected",
                                  !.lastCheckedAt = rt[c].checkedAt]]_vars

\* a 404 has disconnected one barbershop and the other is still connected;
\* the message went out through the default session
OneShopDisconnected ==
  \E c \in Calls, s \in Shops :
    /\ s # rt[c].shop
    /\ rt[c].pc = "returned"
    /\ rt[c].instanceResp = 404 /\ rt[c].updated
    /\ rt[c].result.success
    /\ tenants[rt[c].shop].connectionStatus = "disconnected"
    /\ tenants[s].exists /\ tenants[s].connectionStatus = "connected"

\* C10: every post the router makes, to a barbershop's instance as to the
\* default session, is made only when canRequest() admits it, and its outcome
\* is reported to the breaker: a failure is counted by recordFailure, a
\* success leaves the breaker as recordSuccess leaves it.
RouterPostsGuardedByBreaker ==
  /\ [](\A c \in Calls : rt[c].pc \in {"instance", "default"} => CanProceedNow)
  /\ [][\A c \in Calls :
          /\ rt[c].pc = "instance" /\ rt'[c].pc # "instance" =>
               IF rt'[c].instanceResp = 200
               THEN Recovered(cb')
               ELSE cb'.failures = cb.failures + 1
          /\ rt[c].pc = "default" /\ rt'[c].pc # "default" =>
               IF rt'[c].result.success
               THEN Recovered(cb')
               ELSE cb'.failures = cb.failures + 1]_vars

---------------------------------------------------------------------------
(* The provisioning flow of whatsappRoutes.js, which writes the same        *)
(* whatsappConfig the router reads and writes.  Each handler reads the      *)
(* document with findById, awaits the WAHA API, and writes with save().     *)

ProvisionOps == {"connect", "disconnect", "status", "webhook"}
Statuses == {"connected", "connecting", "disconnected"}

\* mapWahaStatus
mapWahaStatus(wahaStatus) ==
  CASE wahaStatus = "WORKING" -> "connected"
    [] wahaStatus \in {"SCAN_QR_CODE", "STARTING"} -> "connecting"
    [] OTHER -> "disconnected"

WahaStatuses == {"WORKING", "SCAN_QR_CODE", "STARTING", "STOPPED", "FAILED"}

\* a barbershop that never connected a WhatsApp of its own
FreshConfig ==
  [exists |-> TRUE, enabled |-> FALSE, connectionStatus |-> "disconnected",
   hasInstance |-> FALSE, lastCheckedAt |-> NoTime]

\* a barbershop whose own WhatsApp is connected
ConnectedConfig ==
  [exists |-> TRUE, enabled |-> TRUE, connectionStatus |-> "connected",
   hasInstance |-> TRUE, lastCheckedAt |-> NoTime]

\* a provisioning handler: pc is the await it is suspended at ("loaded":
\* findById has resolved and the WAHA API is awaited, "saving": save() is
\* awaited), since the date findById resolved at, stamp the lastCheckedAt
\* the handler has read with new Date()
IdleHandler ==
  [pc |-> "idle", op |-> "connect", shop |-> "shopA",
   status |-> "disconnected", since |-> NoTime, stamp |-> NoTime]

\* the early returns of a handler once findById has resolved with doc
provisionProceeds(op, doc) ==
  /\ doc.exists
  /\ CASE op = "connect" ->
            ~(doc.connectionStatus = "connected" /\ doc.hasInstance)
       [] op \in {"disconnect", "status"} -> doc.hasInstance
       [] OTHER -> TRUE

\* what barbershop.save() writes: connect and disconnect assign the whole
\* whatsappConfig, status and webhook set connectionStatus and lastCheckedAt
provisionSave(doc, op, status, t) ==
  CASE op = "connect" ->
         [doc EXCEPT !.enabled = TRUE, !.hasInstance = TRUE,
                     !.connectionStatus = "connecting", !.lastCheckedAt = t]
    [] op = "disconnect" ->
         [doc EXCEPT !.enabled = FALSE, !.hasInstance = FALSE,
                     !.connectionStatus = "disconnected", !.lastCheckedAt = t]
    [] OTHER ->
         [doc EXCEPT !.connectionStatus = status, !.lastCheckedAt = t]

\* A provisioning request arrives and its findById resolves: the handler
\* goes on to await the WAHA API unless it returns early.  The status is
\* the one the session.status event carries or getConnectionStatus answers.
\* handleConnectionUpdate reads lastCheckedAt = new Date() before its awaits.
ProvisionLoad(op, s, waha) ==
  /\ prov.pc = "idle"
  /\ provisionProceeds(op, tenants[s])
  /\ prov' = [pc |-> "loaded", op |-> op, shop |-> s,
              status |-> IF op \in {"status", "webhook"}
                         THEN mapWahaStatus(waha) ELSE "disconnected",
              since |-> now,
              stamp |-> IF op = "webhook" THEN now ELSE NoTime]
  /\ UNCHANGED <<profile, envOk, now, cb, sb, inflight, tenants, rt, last,
                 batch, cluster, post, health, wahaSend, day, sse, sentAt>>

\* createInstance sleeps while the new session starts, a second longer when
\* it deleted an old session first, and two more when the first getQRCode
\* failed
sessionStartWaitMs == 3000
deleteWaitMs == 1000
qrRetryWaitMs == 2000

\* the sums of the timers createInstance may set
createInstanceWaits ==
  {sessionStartWaitMs + d * deleteWaitMs + q * qrRetryWaitMs :
     d \in 0..1, q \in 0..1}

\* the least time between findById and the call of save(): createInstance
\* returns no earlier than its timer for the start of the session; the
\* requests to the WAHA API take whatever time they take
provisionWaits(op) == IF op = "connect" THEN sessionStartWaitMs ELSE 0

\* whether an await of the handler can reject into the catch of the route:
\* createInstance and getConnectionStatus rethrow, the awaits of disconnect
\* and of handleConnectionUpdate sit in a try/catch of their own
provisionThrows(op) == op \in {"connect", "status"}

\* The handler's awaits of the WAHA API are over: it reads new Date() into
\* lastCheckedAt and calls save(), or an await threw, the catch answers and
\* the document is never written.
ProvisionAwaited(ok) ==
  /\ prov.pc = "loaded"
  /\ IF ok THEN now - prov.since >= provisionWaits(prov.op)
     ELSE provisionThrows(prov.op)
  /\ prov' = IF ok
             THEN [prov EXCEPT !.pc = "saving",
                               !.stamp = IF prov.op = "webhook" THEN @
                                         ELSE now]
             ELSE IdleHandler
  /\ UNCHANGED <<profile, envOk, now, cb, sb, inflight, tenants, rt, last,
                 batch, cluster, post, health, wahaSend, day, sse, sentAt>>

\* save() resolves, having written the document with the lastCheckedAt the
\* handler read, or rejects and the document is as it was.
ProvisionSave(ok) ==
  /\ prov.pc = "saving"
  /\ tenants' = IF ok
                THEN [tenants EXCEPT ![prov.shop] =
                        provisionSave(@, prov.op, prov.status, prov.stamp)]
                ELSE tenants
  /\ prov' = IdleHandler
  /\ UNCHANGED <<profile, envOk, now, cb, sb, inflight, rt, last, batch,
                 cluster, post, health, wahaSend, day, sse, sentAt>>

\* Time passes while handlers and calls wait: the clock is read when a timer
\* of createInstance may have fired, up to MaxConnectWaits times the longest
\* wait before the session's QR code is asked for.
ProvisionInstants ==
  {StartTime + w : w \in {v \in createInstanceWaits \cup {deleteWaitMs} :
     v <= MaxConnectWaits * (sessionStartWaitMs + deleteWaitMs)}}

ProvisionTick(t) ==
  /\ PostsAllow(t)
  /\ t > now
  /\ now' = t
  /\ UNCHANGED <<profile, envOk, cb, sb, inflight, tenants, rt, last, prov,
                 batch, cluster, post, health, wahaSend, day, sse, sentAt>>

InitProvision ==
  /\ profile = "backoff"
  /\ envOk = TRUE
  /\ now = StartTime
  /\ cb = InitBreaker
  /\ sb = InitSimpleBreaker
  /\ inflight = 0
  /\ tenants = [s \in Shops |->
                  IF s = "shopA" THEN FreshConfig ELSE ConnectedConfig]
  /\ rt = [c \in Calls |-> IdleCall]
  /\ last = [op |-> "none", before |-> cb, inflightBefore |-> 0]
  /\ prov = IdleHandler
  /\ batch = NoBatch
  /\ cluster = NoWorkers
  /\ post = NoPost
  /\ health = NoHealth
  /\ wahaSend = NoWaha
  /\ day = NoDay
  /\ sse = NoSse
  /\ sentAt = NoSends

\* While the provisioning flow is followed the gateway answers a post to a
\* barbershop's instance with success, session gone or a server error, and
\* the default session delivers.
ProvisionInstanceResponses == {200, 404, 500}
ProvisionDefaultResponses == {200}

NextProvision ==
  \/ \E c \in Calls, s \in Shops : RouteStart(c, s)
  \/ \E c \in Calls, dbOk \in BOOLEAN : LookupDone(c, dbOk)
  \/ \E c \in Calls, resp \in ProvisionInstanceResponses :
       InstanceDone(c, resp)
  \/ \E c \in Calls, dbOk \in BOOLEAN : UpdateDone(c, dbOk)
  \/ \E c \in Calls, resp \in ProvisionDefaultResponses : DefaultDone(c, resp)
  \/ \E op \in ProvisionOps, s \in Shops, w \in WahaStatuses :
       ProvisionLoad(op, s, w)
  \/ \E ok \in BOOLEAN : ProvisionAwaited(ok)
  \/ \E ok \in BOOLEAN : ProvisionSave(ok)
  \/ \E t \in ProvisionInstants : ProvisionTick(t)

SpecProvision == InitProvision /\ [][NextProvision]_vars

---------------------------------------------------------------------------
(* Properties of the router under the provisioning flow (SpecProvision) *)

\* a step of a sendWhatsAppMessage call
DispatchStep == rt' # rt

\* C11: every write the dispatch layer makes to a barbershop's whatsappConfig
\* finds connectionStatus = connected and changes it to disconnected: it
\* overwrites no connecting or disconnected status that the provisioning
\* flow has set since the router read the document, sets no connected
\* status, and leaves instanceName and enabled as they are.
DispatchWritesOnlyDowngradeConnected ==
  [][DispatchStep =>
       \A s \in Shops :
         tenants'[s] # tenants[s] =>
           /\ tenants[s].connectionStatus = "connected"
           /\ tenants'[s].connectionStatus = "disconnected"
           /\ tenants'[s].enabled = tenants[s].enabled
           /\ tenants'[s].hasInstance = tenants[s].hasInstance]_vars

---------------------------------------------------------------------------
(* sendDailyReminders: the batch of daily reminders of schedulerService.js *)

MIN_DELAY == 5000
MAX_DELAY == 15000
\* the hours the two reminder jobs run at
TriggerHours == {8, 13}

\* the longest list Booking.find returns
MaxBookings == 3
\* the time a gateway that is slow takes to answer a post, in ms
SlowAnswerMs == 300

\* Math.random() is a multiple of 1/RandomUnits in [0, 1)
RandomUnits == 100000
RandomValues == {0, RandomUnits - 1}

\* randomDelay without its lower bound
randomDelayNoFloor(r) == (r * (MAX_DELAY + 1)) \div RandomUnits

\* Math.floor(Math.random() * (MAX_DELAY - MIN_DELAY + 1)) + MIN_DELAY
randomDelay(r) ==
  ((r * (MAX_DELAY - MIN_DELAY + 1)) \div RandomUnits) + MIN_DELAY

\* The bookings of the day as populate() returns them: customer, barbershop
\* and barber are the populated documents or null, phone is customer.phone
\* (a string or absent), hour the hour of the appointment in Sao Paulo.
BookingKinds ==
  { [customer |-> FALSE, barbershop |-> TRUE, barber |-> TRUE,
     phone |-> FALSE, hour |-> 9, shop |-> "shopB"],
    [customer |-> TRUE, barbershop |-> TRUE, barber |-> TRUE,
     phone |-> FALSE, hour |-> 9, shop |-> "shopB"],
    [customer |-> TRUE, barbershop |-> TRUE, barber |-> TRUE,
     phone |-> TRUE, hour |-> 9, shop |-> "shopA"],
    [customer |-> TRUE, barbershop |-> TRUE, barber |-> TRUE,
     phone |-> TRUE, hour |-> 14, shop |-> "shopB"] }

BookingLists == UNION {[1..n -> BookingKinds] : n \in 0..MaxBookings}

\* skips whose 8h test lets the 13h appointments through
skipsAfterThirteen(bk, triggerHour) ==
  \/ ~bk.customer \/ ~bk.barbershop \/ ~bk.barber
  \/ triggerHour = 8 /\ bk.hour > 13
  \/ triggerHour = 13 /\ bk.hour < 13

\* the `continue` tests of the loop: documents not populated, or an
\* appointment that belongs to the other trigger
skips(bk, triggerHour) ==
  \/ ~bk.customer \/ ~bk.barbershop \/ ~bk.barber
  \/ triggerHour = 8 /\ bk.hour >= 13
  \/ triggerHour = 13 /\ bk.hour < 13

\* sendWhatsAppConfirmation(customerPhone, message) up to its await of
\* axios.post, its early return, or the TypeError of customerPhone.replace
\* when customerPhone is not a string (after canRequest, outside the try)
confirmationCall(b, t, env, phone) ==
  LET s == confirmationStart(b, t, env)
  IN IF s.posted /\ ~phone
     THEN [breaker |-> s.breaker, posted |-> FALSE, threw |-> TRUE,
           result |-> NoResult]
     ELSE [breaker |-> s.breaker, posted |-> s.posted, threw |-> FALSE,
           result |-> s.result]

\* A run of sendDailyReminders.  pc is the await the run is suspended at
\* ("query", "send", "sleep"), "idle" before the job fires and "done" once
\* the function has returned; "threw" would be a rejected promise.  i is the
\* booking the loop is at.  Per booking: the calls of
\* sendWhatsAppConfirmation made for it, what became of it, through which
\* session it was posted, and when its call started and ended.
IdleBatch ==
  [pc |-> "idle", trigger |-> 8, loaded |-> FALSE, bookings |-> <<>>,
   i |-> 1, sentCount |-> 0, pending |-> NoResponse, slept |-> 0,
   startedRunAt |-> NoTime,
   attempts |-> <<>>, outcome |-> <<>>, via |-> <<>>,
   startedAt |-> <<>>, endedAt |-> <<>>]

\* the catch around the whole run logs the error and the function returns
outerCatchRethrows(triggerHour) == "threw"
outerCatch(triggerHour) == "done"

\* where the loop goes after the try/catch around one send: the pacing delay,
\* whatever the call returned or threw
afterSendAbortsOnFailure(outcome) ==
  IF outcome \in {"sent"} THEN "sleep" ELSE "done"
afterSend(outcome) == "sleep"

\* the for...of loop takes the next booking, whatever became of this one
nextBookingRetriesFailed(i, outcome) ==
  IF outcome \in {"failed", "blocked"} THEN i ELSE i + 1
nextBooking(i, outcome) == i + 1

\* the request ends: the gateway answers, or axios gives up after 10 s
requestEndsOnlyIfAnswered(resp) == resp # NoResponse
requestEnds(resp) == TRUE

BatchResponses == {200, 500, NoResponse}

\* The loop from booking bt.i to its next await (the post of a send or the
\* pacing delay) or to the end of the list; resp is what the gateway will
\* do with the post, if one is made.
RECURSIVE runLoop(_, _, _, _, _)
runLoop(bt, b, t, env, resp) ==
  IF bt.i > Len(bt.bookings)
  THEN [batch |-> [bt EXCEPT !.pc = "done"], breaker |-> b]
  ELSE LET k == bt.i
           bk == bt.bookings[k]
       IN IF skips(bk, bt.trigger)
          THEN runLoop([bt EXCEPT !.outcome[k] = "skipped", !.i = k + 1],
                       b, t, env, resp)
          ELSE LET c == confirmationCall(b, t, env, bk.phone)
                   b1 == [bt EXCEPT !.attempts[k] = @ + 1,
                                    !.startedAt[k] = t]
               IN IF c.posted
                  THEN [batch |-> [b1 EXCEPT !.pc = "send",
                                             !.outcome[k] = "sending",
                                             !.via[k] = "default",
                                             !.pending = resp],
                        breaker |-> c.breaker]
                  ELSE IF c.threw
                  THEN [batch |-> [b1 EXCEPT !.pc = afterSend("threw"),
                                             !.outcome[k] = "threw",
                                             !.endedAt[k] = t],
                        breaker |-> c.breaker]
                  ELSE LET o == IF c.result.blocked THEN "blocked"
                                ELSE "config"
                       IN [batch |-> [b1 EXCEPT !.pc = afterSend(o),
                                                !.sentCount = @ + 1,
                                                !.outcome[k] = o,
                                                !.endedAt[k] = t],
                           breaker |-> c.breaker]

\* cron fires sendDailyReminders(8) or sendDailyReminders(13): the run
\* awaits Booking.find
CronFires(h) ==
  /\ batch.pc = "idle"
  /\ batch' = [batch EXCEPT !.pc = "query", !.trigger = h,
                            !.startedRunAt = now]
  /\ UNCHANGED <<profile, envOk, now, cb, sb, inflight, tenants, rt, last,
                 prov, cluster, post, health, wahaSend, day, sse, sentAt>>

\* Booking.find rejects, or resolves with the bookings of the day
QueryDone(ok, list, resp) ==
  /\ batch.pc = "query"
  /\ LET n == Len(list)
         bt == [batch EXCEPT !.loaded = TRUE, !.bookings = list, !.i = 1,
                             !.attempts = [k \in 1..n |-> 0],
                             !.outcome = [k \in 1..n |-> "pending"],
                             !.via = [k \in 1..n |-> "none"],
                             !.startedAt = [k \in 1..n |-> NoTime],
                             !.endedAt = [k \in 1..n |-> NoTime]]
         r == IF ~ok
              THEN [batch |-> [batch EXCEPT !.pc = outerCatch(batch.trigger)],
                    breaker |-> cb]
              ELSE runLoop(bt, cb, now, envOk, resp)
     IN /\ batch' = r.batch
        /\ cb' = r.breaker
        /\ inflight' = IF r.batch.pc = "send" THEN inflight + 1 ELSE inflight
  /\ UNCHANGED <<profile, envOk, now, sb, tenants, rt, last, prov, cluster, post, health, wahaSend, day, sse, sentAt>>

\* The dates at which the await of a run may end: a post made at startedAt
\* is answered or refused at once, answered late, or given up by axios at
\* its timeout; the pacing timer set when the send ended fires after a
\* randomDelay.
runInstants(run) ==
  CASE run.pc = "send" ->
         {run.startedAt[run.i] + d : d \in {SlowAnswerMs, requestTimeoutMs}}
    [] run.pc = "sleep" ->
         {run.endedAt[run.i] + randomDelay(r) : r \in RandomValues}
    [] OTHER -> {}

\* the clock does not pass the date at which the await of a run ends at the
\* latest: the timeout of its post, at which axios ends it with no response
\* (an answer comes before that), or the longest pacing delay
runAllows(run, t) ==
  CASE run.pc = "send" ->
         /\ t <= run.startedAt[run.i] + requestTimeoutMs
         /\ run.pending # NoResponse =>
              t < run.startedAt[run.i] + requestTimeoutMs
    [] run.pc = "sleep" ->
         \E r \in RandomValues : t <= run.endedAt[run.i] + randomDelay(r)
    [] OTHER -> TRUE

\* time passes while the run awaits its post or its pacing timer
BatchTimePasses ==
  /\ \E t \in runInstants(batch) :
       /\ runAllows(batch, t)
       /\ t > now
       /\ now' = t
  /\ UNCHANGED <<profile, envOk, cb, sb, inflight, tenants, rt, last, prov,
                 batch, cluster, post, health, wahaSend, day, sse, sentAt>>

\* the post of the current booking ends, answered, refused or timed out:
\* sendWhatsAppConfirmation returns {success: true} or {success: false, ...},
\* sentCount++ follows either way
BatchSendDone ==
  /\ batch.pc = "send"
  /\ requestEnds(batch.pending)
  /\ LET f == confirmationFinish(cb, now, batch.pending)
         o == IF f.result.success THEN "sent" ELSE "failed"
     IN /\ cb' = f.breaker
        /\ batch' = [batch EXCEPT !.pc = afterSend(o),
                                  !.sentCount = @ + 1,
                                  !.outcome[batch.i] = o,
                                  !.pending = NoResponse,
                                  !.endedAt[batch.i] = now]
  /\ inflight' = inflight - 1
  /\ UNCHANGED <<profile, envOk, now, sb, tenants, rt, last, prov, cluster, post, health, wahaSend, day, sse, sentAt>>

\* the pacing timer, set for randomDelay(r) when the send ended, fires: the
\* loop takes the next booking
SleepDone(r, resp) ==
  /\ batch.pc = "sleep"
  /\ now = batch.endedAt[batch.i] + randomDelay(r)
  /\ LET bt == [batch EXCEPT !.slept = randomDelay(r),
                             !.i = nextBooking(@, batch.outcome[batch.i])]
         res == runLoop(bt, cb, now, envOk, resp)
     IN /\ batch' = res.batch
        /\ cb' = res.breaker
        /\ inflight' = IF res.batch.pc = "send" THEN inflight + 1
                       ELSE inflight
  /\ UNCHANGED <<profile, envOk, now, sb, tenants, rt, last, prov, cluster, post, health, wahaSend, day, sse, sentAt>>

\* the breaker after three failed sends at StartTime
OpenedBreaker ==
  recordFailure(recordFailure(recordFailure(InitBreaker, StartTime),
                              StartTime), StartTime)

InitBatch ==
  /\ profile = "backoff"
  /\ envOk \in BOOLEAN
  /\ now = StartTime
  /\ cb \in {InitBreaker, OpenedBreaker}
  /\ sb = InitSimpleBreaker
  /\ inflight = 0
  /\ tenants = [s \in Shops |-> IF s = "shopA" THEN ConnectedConfig
                                ELSE FreshConfig]
  /\ rt = NoCalls
  /\ last = [op |-> "none", before |-> cb, inflightBefore |-> 0]
  /\ prov = NoProvisioning
  /\ batch = IdleBatch
  /\ cluster = NoWorkers
  /\ post = NoPost
  /\ health = NoHealth
  /\ wahaSend = NoWaha
  /\ day = NoDay
  /\ sse = NoSse
  /\ sentAt = NoSends

NextBatch ==
  \/ \E h \in TriggerHours : CronFires(h)
  \/ \E ok \in BOOLEAN, list \in BookingLists, resp \in BatchResponses :
       QueryDone(ok, list, resp)
  \/ BatchSendDone
  \/ \E r \in RandomValues, resp \in BatchResponses : SleepDone(r, resp)
  \/ BatchTimePasses

SpecBatch == InitBatch /\ [][NextBatch]_vars

\* every await of the run resolves or rejects in the end
SpecBatchFair == SpecBatch /\ WF_vars(NextBatch)

---------------------------------------------------------------------------
(* Properties of the batch, checked under SpecBatch *)

Indexes == 1..Len(batch.bookings)
\* the bookings the loop does not `continue` over
NonSkipped == {k \in Indexes : ~skips(batch.bookings[k], batch.trigger)}
\* the calls of sendWhatsAppConfirmation that did not deliver
FailedOutcomes == {"failed", "blocked", "config", "threw"}
\* the run got its bookings and has returned
RunOver == batch.pc = "done" /\ batch.loaded

\* C12: Batch resilience.  A send that fails (a failure returned, an error
\* thrown or a rejection by the breaker) does not end the run: while a
\* booking's send has failed and bookings remain the run is not over, and
\* when the run is over every non-skipped booking has had its call of
\* sendWhatsAppConfirmation.
BatchResilience ==
  /\ RunOver => batch.i > Len(batch.bookings)
  /\ RunOver => \A k \in NonSkipped : batch.attempts[k] >= 1

\* a run is over in which a send failed, one was rejected or threw, and a
\* later booking was still sent
ResilientRunOver ==
  /\ RunOver
  /\ \E j, k \in NonSkipped :
       /\ j < k
       /\ batch.outcome[j] \in FailedOutcomes
       /\ batch.outcome[k] = "sent"
  /\ \E j \in NonSkipped : batch.outcome[j] \in {"blocked", "threw"}

\* the bookings whose send the gateway accepted
Delivered == {k \in Indexes : batch.outcome[k] = "sent"}

\* C13: Batch accounting.  When the run is over, the count it reports as
\* sent (sentCount) is the number of bookings whose send succeeded: a send
\* that returned a failure, timed out or was rejected by the breaker is not
\* counted as sent.
BatchAccounting ==
  RunOver => batch.sentCount = Cardinality(Delivered)

\* the bookings without a customer or without a customer phone
NoRecipient ==
  {k \in Indexes : ~batch.bookings[k].customer \/ ~batch.bookings[k].phone}

\* C14: Batch skip semantics.  A booking whose customer or whose customer
\* phone is absent is skipped: sendWhatsAppConfirmation is never called for
\* it, so that it neither touches the breaker nor counts as sent or failed.
SkipsAbsentRecipient ==
  \A k \in NoRecipient :
    /\ batch.attempts[k] = 0
    /\ batch.outcome[k] \in {"pending", "skipped"}

\* the bookings sendWhatsAppConfirmation has been called for
Attempted == {k \in Indexes : batch.attempts[k] >= 1}

\* C15: within one run the sends are made one at a time in the order of the
\* list: at most one post is in flight, a booking's send starts only when
\* every earlier booking is done with (skipped, or its send over and the
\* pacing delay after it elapsed), and no booking gets a second send.
StrictlySequential ==
  /\ inflight <= 1
  /\ inflight = 1 <=> batch.pc = "send"
  /\ \A k \in Indexes : batch.attempts[k] <= 1
  /\ \A j, k \in Indexes :
       j < k /\ k \in Attempted =>
         /\ batch.outcome[j] \notin {"pending", "sending"}
         /\ j \in Attempted =>
              batch.startedAt[k] >= batch.endedAt[j] + MIN_DELAY

\* three bookings were sent one after the other
ThreeSentInOrder ==
  /\ RunOver
  /\ Len(batch.bookings) = MaxBookings
  /\ Attempted = Indexes
  /\ \A k \in Indexes : batch.outcome[k] \in {"sent", "failed"}
  /\ \A k \in Indexes \ {1} : batch.startedAt[k] > batch.startedAt[k - 1]

\* j and k are attempted one after the other, with no attempt between them
Consecutive(j, k) ==
  /\ j \in Attempted /\ k \in Attempted /\ j < k
  /\ \A m \in Attempted : ~(j < m /\ m < k)

\* C16: Pacing.  After every call of sendWhatsAppConfirmation, whether it
\* delivered, failed, threw or was rejected by the breaker, the run sleeps
\* between MIN_DELAY and MAX_DELAY before the next call: two consecutive
\* sends of a run are at least MIN_DELAY apart, the run does not return
\* before the delay after its last send, and a run of three sends takes at
\* least twice MIN_DELAY.
Pacing ==
  /\ batch.slept = 0 \/ (MIN_DELAY <= batch.slept /\ batch.slept <= MAX_DELAY)
  /\ \A j, k \in Indexes :
       Consecutive(j, k) =>
         /\ batch.startedAt[k] - batch.endedAt[j] >= MIN_DELAY
         /\ batch.startedAt[k] - batch.endedAt[j] <= MAX_DELAY
  /\ \A k \in Indexes :
       batch.outcome[k] \in FailedOutcomes \cup {"sent"} /\ batch.i = k =>
         batch.pc = "sleep"
  /\ RunOver =>
       \A k \in Attempted : now >= batch.endedAt[k] + MIN_DELAY
  /\ RunOver /\ Cardinality(Attempted) >= 3 =>
       now - batch.startedRunAt >= 2 * MIN_DELAY

\* a run slept after a rejected send and after a send that reached the
\* gateway, the shortest delay and the longest
PacedAfterRejection ==
  /\ RunOver
  /\ \E j, k \in Indexes :
       /\ Consecutive(j, k)
       /\ batch.outcome[j] = "blocked"
       /\ batch.outcome[k] \in {"sent", "failed"}
       /\ batch.startedAt[k] - batch.endedAt[j] = MAX_DELAY
  /\ batch.slept = MIN_DELAY

\* C17: the batch sends every non-skipped booking through the router: the
\* reminder of a barbershop whose own WhatsApp is enabled and connected is
\* posted to that barbershop's instance, not to the default session.
BatchSendsThroughRouter ==
  \A k \in Indexes :
    /\ batch.via[k] # "none"
    /\ hasOwnWhatsApp(batch.bookings[k].shop,
                      tenants[batch.bookings[k].shop])
    => batch.via[k] = "barbershop"

\* C18: no exception leaves a run: whatever Booking.find and the sends do
\* (a rejected query, a failure returned, an error thrown, a booking without
\* its documents), sendDailyReminders returns normally.
NoExceptionLeavesRun ==
  batch.pc \in {"idle", "query", "send", "sleep", "done"}

\* Booking.find rejected and the run returned
QueryRejectedRunReturned ==
  /\ batch.pc = "done"
  /\ ~batch.loaded
  /\ batch.startedRunAt # NoTime

\* C19: Batch termination.  Every await of a run ending (the query, each
\* post, each delay), a run that has started eventually returns, and when it
\* returns with its bookings the loop is past the last of them, whatever the
\* failures of the sends and the state of the breaker.
BatchTerminates ==
  /\ (batch.pc # "idle") ~> (batch.pc = "done")
  /\ [](RunOver => batch.i = Len(batch.bookings) + 1)

\* a run over a full list returned though no send delivered and the breaker
\* is not closed
RunOverAllFailed ==
  /\ RunOver
  /\ Len(batch.bookings) = MaxBookings
  /\ Attempted = Indexes
  /\ \A k \in Indexes : batch.outcome[k] \in {"failed", "blocked"}
  /\ \E k \in Indexes :
       /\ batch.outcome[k] = "failed"
       /\ batch.endedAt[k] = batch.startedAt[k] + requestTimeoutMs
  /\ cb.state # "CLOSED"

---------------------------------------------------------------------------
(* The deployment: PM2 runs the application in cluster mode, every worker   *)
(* a process of its own with its scheduler and its circuit breaker.         *)

\* ecosystem config: instances: 2, exec_mode: 'cluster'
instances == 2
Workers == 1..instances

\* the moments of one day in Sao Paulo: before the first job, 08:00, the
\* morning, 13:00
DayHours == <<7, 8, 10, 13>>

\* the most stops (stopAllCronJobs, shutdowns of a process) in one day
MaxStops == 1

\* the bookings of the day, one in the morning, one in the afternoon; both
\* are stored with status "booked" when the day begins
DayBookings ==
  << [customer |-> TRUE, barbershop |-> TRUE, barber |-> TRUE,
      phone |-> TRUE, hour |-> 9, shop |-> "shopB"],
     [customer |-> TRUE, barbershop |-> TRUE, barber |-> TRUE,
      phone |-> TRUE, hour |-> 14, shop |-> "shopB"] >>

ClusterResponses == {200, 500}

\* the milliseconds between two firings of the hourly job "0 * * * *"
HourMs == 3600000

\* Date.now() at the k-th moment of the day
hourTime(k) == StartTime + (DayHours[k] - DayHours[1]) * HourMs

\* a worker process: whether its cron tasks are scheduled, its reminder job
\* due, the hour of its updateExpiredBookings call due (0 for none), its run
\* of sendDailyReminders and its circuitBreaker, all in the memory of the
\* process
FreshWorker ==
  [up |-> TRUE, cron |-> TRUE, due |-> 0, expire |-> 0, run |-> IdleBatch,
   breaker |-> InitBreaker]
DownWorker == [FreshWorker EXCEPT !.up = FALSE, !.cron = FALSE]

\* the process has loaded schedulerService.js at hour h: the module calls
\* updateExpiredBookings() once
StartedWorker(h) == [FreshWorker EXCEPT !.expire = h]

\* updateMany({time: {$lt: now}, status: {$in: ["booked", "confirmed"]}},
\*            {$set: {status: "completed"}}) at hour h
updateExpired(bookings, status, h) ==
  [k \in 1..Len(bookings) |->
     IF bookings[k].hour < h /\ status[k] \in {"booked", "confirmed"}
     THEN "completed" ELSE status[k]]

\* Booking.find({time: today, status: "booked"})
findBooked(bookings, status) ==
  LET booked == SelectSeq([k \in 1..Len(bookings) |-> k],
                          LAMBDA k : status[k] = "booked")
  IN [j \in 1..Len(booked) |-> bookings[booked[j]]]

\* the place of a booking among the bookings of the day
bookingId(bk) == CHOOSE k \in 1..Len(DayBookings) : DayBookings[k] = bk

ClusterUnchanged ==
  UNCHANGED <<profile, envOk, cb, sb, inflight, tenants, rt, last, prov,
              batch, post, health, wahaSend, day, sse, sentAt>>

\* The clock reaches the next moment of the day, a whole hour; node-cron, in
\* every worker that is up with its tasks scheduled, fires the hourly job
\* and the reminder job of that hour.  The runs of the hour before, a few
\* posts and pacing delays long, are over by then.
ClockAdvances ==
  /\ cluster.clock < Len(DayHours)
  /\ \A w \in Workers : /\ cluster.workers[w].run.pc \in {"idle", "done"}
                        /\ cluster.workers[w].expire = 0
  /\ LET h == DayHours[cluster.clock + 1]
     IN cluster' =
          [cluster EXCEPT
             !.clock = @ + 1,
             !.workers = [w \in Workers |->
                            IF ~@[w].up \/ ~@[w].cron THEN @[w]
                            ELSE IF h \in TriggerHours
                            THEN [@[w] EXCEPT !.due = h, !.expire = h]
                            ELSE [@[w] EXCEPT !.due = 0, !.expire = h]]]
  /\ now' = hourTime(cluster.clock + 1)
  /\ ClusterUnchanged

\* Time passes within the hour while runs await a post or a pacing timer:
\* the clock reaches a date at which the await of some worker may end, and
\* passes the latest end of no worker's await.  The jobs node-cron fires at
\* the hour have been called by then, and Booking.find has been answered.
ClusterTimePasses ==
  /\ \A w \in Workers : /\ cluster.workers[w].due = 0
                        /\ cluster.workers[w].run.pc # "query"
  /\ \E w \in Workers :
       \E t \in runInstants(cluster.workers[w].run) :
         /\ \A v \in Workers : runAllows(cluster.workers[v].run, t)
         /\ t > now
         /\ now' = t
  /\ UNCHANGED cluster
  /\ ClusterUnchanged

\* the job of worker w runs sendDailyReminders(h), which awaits Booking.find
WorkerCronFires(w) ==
  /\ cluster.workers[w].up
  /\ cluster.workers[w].due \in TriggerHours
  /\ cluster' = [cluster EXCEPT
                   !.workers[w].run =
                      [IdleBatch EXCEPT !.pc = "query",
                                        !.trigger = cluster.workers[w].due,
                                        !.startedRunAt = now],
                   !.workers[w].due = 0]
  /\ UNCHANGED now
  /\ ClusterUnchanged

\* updateExpiredBookings of worker w, called by the hourly job or at the
\* load of the module: updateMany writes, or rejects and the catch logs it
WorkerExpiresBookings(w, ok) ==
  /\ cluster.workers[w].up
  /\ cluster.workers[w].expire # 0
  /\ cluster' =
       [cluster EXCEPT
          !.status = IF ok
                     THEN updateExpired(cluster.bookings, @,
                                        cluster.workers[w].expire)
                     ELSE @,
          !.workers[w].expire = 0]
  /\ UNCHANGED now
  /\ ClusterUnchanged

\* Booking.find of worker w resolves with the bookings of the day that have
\* status "booked", or rejects and the catch around the run logs it
WorkerQueryDone(w, ok, resp) ==
  /\ cluster.workers[w].up
  /\ cluster.workers[w].run.pc = "query"
  /\ LET run == cluster.workers[w].run
         list == findBooked(cluster.bookings, cluster.status)
         n == Len(list)
         bt == [run EXCEPT
                  !.loaded = TRUE, !.bookings = list, !.i = 1,
                  !.attempts = [k \in 1..n |-> 0],
                  !.outcome = [k \in 1..n |-> "pending"],
                  !.via = [k \in 1..n |-> "none"],
                  !.startedAt = [k \in 1..n |-> NoTime],
                  !.endedAt = [k \in 1..n |-> NoTime]]
         r == IF ~ok
              THEN [batch |-> [run EXCEPT !.pc = outerCatch(run.trigger)],
                    breaker |-> cluster.workers[w].breaker]
              ELSE runLoop(bt, cluster.workers[w].breaker, now, envOk, resp)
     IN cluster' = [cluster EXCEPT !.workers[w].run = r.batch,
                                   !.workers[w].breaker = r.breaker]
  /\ UNCHANGED now
  /\ ClusterUnchanged

\* the post of worker w ends: a 200 is a reminder delivered
WorkerSendDone(w) ==
  /\ cluster.workers[w].up
  /\ cluster.workers[w].run.pc = "send"
  /\ LET run == cluster.workers[w].run
         f == confirmationFinish(cluster.workers[w].breaker, now, run.pending)
         o == IF f.result.success THEN "sent" ELSE "failed"
     IN cluster' =
          [cluster EXCEPT
             !.workers[w].breaker = f.breaker,
             !.workers[w].run =
                [run EXCEPT !.pc = afterSend(o), !.sentCount = @ + 1,
                            !.outcome[run.i] = o, !.pending = NoResponse,
                            !.endedAt[run.i] = now],
             !.reminders[bookingId(run.bookings[run.i])] =
                IF o = "sent" THEN @ + 1 ELSE @]
  /\ UNCHANGED now
  /\ ClusterUnchanged

\* the pacing timer of worker w, set for randomDelay(r) when its send ended,
\* fires
WorkerSleepDone(w, r, resp) ==
  /\ cluster.workers[w].up
  /\ cluster.workers[w].run.pc = "sleep"
  /\ now = cluster.workers[w].run.endedAt[cluster.workers[w].run.i]
             + randomDelay(r)
  /\ LET run == cluster.workers[w].run
         bt == [run EXCEPT !.slept = randomDelay(r),
                           !.i = nextBooking(@, run.outcome[run.i])]
         res == runLoop(bt, cluster.workers[w].breaker, now, envOk, resp)
     IN cluster' = [cluster EXCEPT !.workers[w].run = res.batch,
                                   !.workers[w].breaker = res.breaker]
  /\ UNCHANGED now
  /\ ClusterUnchanged

\* stopAllCronJobs() in worker w, the first step of a graceful shutdown: the
\* process stays up, a run in progress goes on, and no job fires in it any
\* more
WorkerStopsCron(w) ==
  /\ cluster.workers[w].up
  /\ cluster.workers[w].cron
  /\ cluster.stops < MaxStops
  /\ cluster' = [cluster EXCEPT !.workers[w].cron = FALSE,
                                !.stops = @ + 1]
  /\ UNCHANGED now
  /\ ClusterUnchanged

\* PM2 stops worker w (deploy, max_memory_restart, crash): whatever the
\* process held in memory is gone, a post in flight is abandoned
WorkerShutsDown(w) ==
  /\ cluster.workers[w].up
  /\ cluster.stops < MaxStops \/ ~cluster.workers[w].cron
  /\ cluster' = [cluster EXCEPT
                   !.workers[w] = DownWorker,
                   !.stops = IF cluster.workers[w].cron THEN @ + 1 ELSE @]
  /\ UNCHANGED now
  /\ ClusterUnchanged

\* PM2 starts worker w again (autorestart): the module state is initialised
WorkerRestarts(w) ==
  /\ ~cluster.workers[w].up
  /\ cluster' = [cluster EXCEPT
                   !.workers[w] = StartedWorker(DayHours[cluster.clock])]
  /\ UNCHANGED now
  /\ ClusterUnchanged

InitCluster ==
  /\ profile = "backoff"
  /\ envOk = TRUE
  /\ now = StartTime
  /\ cb = InitBreaker
  /\ sb = InitSimpleBreaker
  /\ inflight = 0
  /\ tenants = [s \in Shops |-> FreshConfig]
  /\ rt = NoCalls
  /\ last = [op |-> "none", before |-> cb, inflightBefore |-> 0]
  /\ prov = NoProvisioning
  /\ batch = NoBatch
  /\ cluster = [clock |-> 1, stops |-> 0, bookings |-> DayBookings,
                status |-> [k \in 1..Len(DayBookings) |-> "booked"],
                reminders |-> [k \in 1..Len(DayBookings) |-> 0],
                workers |-> [w \in Workers |-> StartedWorker(DayHours[1])]]
  /\ post = NoPost
  /\ health = NoHealth
  /\ wahaSend = NoWaha
  /\ day = NoDay
  /\ sse = NoSse
  /\ sentAt = NoSends

NextCluster ==
  \/ ClockAdvances
  \/ \E w \in Workers : WorkerCronFires(w)
  \/ \E w \in Workers, ok \in BOOLEAN : WorkerExpiresBookings(w, ok)
  \/ ClusterTimePasses
  \/ \E w \in Workers, ok \in BOOLEAN, resp \in ClusterResponses :
       WorkerQueryDone(w, ok, resp)
  \/ \E w \in Workers : WorkerSendDone(w)
  \/ \E w \in Workers, r \in RandomValues, resp \in ClusterResponses :
       WorkerSleepDone(w, r, resp)
  \/ \E w \in Workers : WorkerStopsCron(w)
  \/ \E w \in Workers : WorkerShutsDown(w)
  \/ \E w \in Workers : WorkerRestarts(w)

SpecCluster == InitCluster /\ [][NextCluster]_vars

---------------------------------------------------------------------------
(* Properties of the deployment, checked under SpecCluster *)

\* C20: across the scheduled runs, the shutdowns in the middle of a run and
\* the restarts, abandoning a run only loses reminders: no booking has the
\* day's reminder delivered more than once, and a worker that restarted has
\* a CLOSED breaker and no run in progress until its next job fires.
NoDuplicateReminder ==
  /\ \A k \in 1..Len(cluster.bookings) : cluster.reminders[k] <= 1
  /\ \A w \in Workers :
       ~cluster.workers[w].up => cluster.workers[w] = DownWorker

---------------------------------------------------------------------------
(* Further properties of the circuit breaker, checked under Spec *)

\* the breaker of the profile in use
Breaker == IF Backoff THEN cb ELSE sb

\* C21: Single probe.  While the breaker is HALF_OPEN at most one probe is in
\* flight: a send invoked while a probe awaits its answer is not let through.
SingleProbe ==
  /\ Breaker.state = "HALF_OPEN" => inflight <= 1
  /\ last.op = "admitted" /\ last.before.state = "HALF_OPEN" =>
       last.inflightBefore = 0

\* the edges of the breaker's state diagram
DiagramEdges ==
  {<<"CLOSED", "OPEN">>, <<"OPEN", "HALF_OPEN">>,
   <<"HALF_OPEN", "CLOSED">>, <<"HALF_OPEN", "OPEN">>}

\* C22: the breaker starts CLOSED and changes state only along
\* CLOSED->OPEN, OPEN->HALF_OPEN, HALF_OPEN->CLOSED and HALF_OPEN->OPEN; it
\* never goes from OPEN to CLOSED directly.
OnlyDiagramEdges ==
  /\ last.op = "none" => Breaker.state = "CLOSED"
  /\ last.before.state # Breaker.state =>
       <<last.before.state, Breaker.state>> \in DiagramEdges

\* C24: Idempotent success.  From every reachable state of the breaker a
\* second recordSuccess() changes nothing of what the first left: state
\* CLOSED, consecutiveFailures 0, the base delay, no blocked request counted,
\* and no counter negative.
IdempotentSuccess ==
  Backoff =>
    LET once == recordSuccess(cb)
        twice == recordSuccess(once)
    IN /\ twice = once
       /\ Recovered(twice)
       /\ twice.failures >= 0
       /\ cb.failures >= 0 /\ cb.consecutiveFailures >= 0
       /\ cb.totalBlockedRequests >= 0

\* a success was recorded on a breaker that a success had already closed,
\* after failures
SuccessAfterSuccess ==
  /\ Backoff
  /\ last.op = "success"
  /\ last.before = recordSuccess(last.before)
  /\ last.before.failures > 0
  /\ cb = last.before

\* C25: state = OPEN implies lastFailureTime is not null.
OpenHasFailureTime ==
  /\ cb.state = "OPEN" => cb.lastFailureTime # NoTime
  /\ sb.state = "OPEN" => sb.lastFailureTime # NoTime

\* the failure that opened the breaker left its time
OpenedJustNow ==
  /\ Backoff
  /\ last.op = "failure"
  /\ last.before.state = "CLOSED"
  /\ cb.state = "OPEN"
  /\ cb.lastFailureTime = now
  /\ now > StartTime

\* C26: getStatus() reports nextRetryIn = max(0, currentDelayMs - (now -
\* lastFailureTime)) when the state is OPEN or HALF_OPEN, and 0 whenever the
\* state is CLOSED.
NextRetryInByState ==
  Backoff =>
    LET s == getStatus(cb, now)
    IN /\ cb.state \in {"OPEN", "HALF_OPEN"} =>
            s.nextRetryIn =
              Max(0, cb.currentDelayMs - (now - cb.lastFailureTime))
       /\ cb.state = "CLOSED" => s.nextRetryIn = 0

---------------------------------------------------------------------------
(* Recovery: the gateway has come back and answers every send with 200 *)

\* the breaker after n sends, posted together while it was CLOSED, have
\* failed at instant t
RECURSIVE afterFailures(_, _)
afterFailures(n, t) ==
  IF n = 0 THEN InitBreaker ELSE recordFailure(afterFailures(n - 1, t), t)

RECURSIVE simpleAfterFailures(_, _)
simpleAfterFailures(n, t) ==
  IF n = 0 THEN InitSimpleBreaker
  ELSE simpleRecordFailure(simpleAfterFailures(n - 1, t), t)

\* The outage ended at StartTime: up to then some number of sends failed, and
\* no request is in flight.
InitRecovery ==
  /\ profile \in {"backoff", "simple"}
  /\ envOk = TRUE
  /\ now = StartTime
  /\ \E n \in 0..(MaxFailures - 1) :
       IF profile = "backoff"
       THEN cb = afterFailures(n, StartTime) /\ sb = InitSimpleBreaker
       ELSE cb = InitBreaker /\ sb = simpleAfterFailures(n, StartTime)
  /\ inflight = 0
  /\ tenants = NoTenants
  /\ rt = NoCalls
  /\ last = [op |-> "none", before |-> IF profile = "backoff" THEN cb ELSE sb,
             inflightBefore |-> 0]
  /\ prov = NoProvisioning
  /\ batch = NoBatch
  /\ cluster = NoWorkers
  /\ post = NoPost
  /\ health = NoHealth
  /\ wahaSend = NoWaha
  /\ day = NoDay
  /\ sse = NoSse
  /\ sentAt = NoSends

RecoveryTick == \E t \in Instants : Tick(t)

NextRecovery ==
  \/ SendStart
  \/ SendFinish(200)
  \/ SimpleSendStart
  \/ SimpleSendFinish(200)
  \/ RecoveryTick

\* Callers keep invoking sends, every request in flight is answered, and time
\* advances whenever it can.
SpecRecovery ==
  /\ InitRecovery
  /\ [][NextRecovery]_vars
  /\ WF_vars(SendStart) /\ WF_vars(SendFinish(200))
  /\ WF_vars(SimpleSendStart) /\ WF_vars(SimpleSendFinish(200))
  /\ SF_vars(RecoveryTick)

\* C23: Recovery liveness.  Once every gateway send succeeds, with callers
\* that keep sending while time advances, the breaker of either profile
\* eventually is CLOSED and stays CLOSED: from no state are sends blocked
\* forever.
RecoveryLiveness == <>[](Breaker.state = "CLOSED")

\* a breaker that had reached the maximum delay was closed by its probe
RecoveredFromMaxDelay ==
  /\ Backoff
  /\ last.op = "success"
  /\ last.before.state = "HALF_OPEN"
  /\ last.before.currentDelayMs = maxDelayMs
  /\ cb.state = "CLOSED"

---------------------------------------------------------------------------
(* Selection of the session, checked under SpecRouter *)

\* the barbershop's document exists with enabled = true, connectionStatus =
\* connected and an instanceName
DedicatedConfigured(s) ==
  /\ tenants[s].exists
  /\ tenants[s].enabled
  /\ tenants[s].connectionStatus = "connected"
  /\ tenants[s].hasInstance

\* the call leaves its await of findById
LookupEnds(c) == rt[c].pc = "lookup" /\ rt'[c].pc # "lookup"

\* C27 as stated: Router selection.  The first attempt goes to the
\* barbershop's own instance exactly when its configuration has enabled =
\* true, connectionStatus = connected and an instanceName; in every other
\* case the first and only attempt goes to the default session.
RouterSelectionByConfig ==
  [][\A c \in Calls :
       /\ LookupEnds(c) =>
            /\ rt'[c].pc = "instance" <=> DedicatedConfigured(rt[c].shop)
            /\ rt'[c].pc = "instance" =>
                 rt'[c].instancePosts = 1 /\ rt'[c].defaultCalls = 0
            /\ rt'[c].pc # "instance" =>
                 rt'[c].instancePosts = 0 /\ rt'[c].defaultCalls = 1
       /\ rt'[c].instancePosts > rt[c].instancePosts =>
            rt[c].pc = "lookup" /\ DedicatedConfigured(rt[c].shop)
       /\ rt[c].instancePosts = 0 /\ rt[c].pc \notin {"idle", "lookup"} =>
            \/ rt'[c].pc = "lookup"
            \/ rt'[c].instancePosts = 0 /\ rt'[c].defaultCalls = 1
                 /\ rt'[c].updates = 0]_vars

\* C27: Router selection.  When findById has delivered the barbershop's
\* configuration, the first attempt goes to the barbershop's own instance
\* exactly when the configuration has enabled = true, connectionStatus =
\* connected and an instanceName; in every other case, a rejected findById
\* included whatever the stored configuration, the call makes no post to an
\* instance, writes nothing and invokes the default-session send, once.
RouterSelection ==
  [][\A c \in Calls :
       /\ LookupDone(c, TRUE) =>
            /\ rt'[c].pc = "instance" <=> DedicatedConfigured(rt[c].shop)
            /\ rt'[c].pc = "instance" =>
                 rt'[c].instancePosts = 1 /\ rt'[c].defaultCalls = 0
            /\ rt'[c].pc # "instance" =>
                 rt'[c].instancePosts = 0 /\ rt'[c].defaultCalls = 1
       /\ LookupDone(c, FALSE) =>
            /\ rt'[c].pc # "instance"
            /\ rt'[c].instancePosts = 0 /\ rt'[c].defaultCalls = 1
       /\ LookupEnds(c) => LookupDone(c, TRUE) \/ LookupDone(c, FALSE)
       /\ rt'[c].instancePosts > rt[c].instancePosts =>
            rt[c].pc = "lookup" /\ DedicatedConfigured(rt[c].shop)
       /\ rt[c].instancePosts = 0 /\ rt[c].pc \notin {"idle", "lookup"} =>
            \/ rt'[c].pc = "lookup"
            \/ rt'[c].instancePosts = 0 /\ rt'[c].defaultCalls = 1
                 /\ rt'[c].updates = 0]_vars

\* a barbershop whose session is still connecting was served by the default
\* session alone
ConnectingServedByDefault ==
  \E c \in Calls :
    /\ rt[c].pc = "returned"
    /\ tenants[rt[c].shop].exists
    /\ tenants[rt[c].shop].enabled
    /\ tenants[rt[c].shop].hasInstance
    /\ tenants[rt[c].shop].connectionStatus = "connecting"
    /\ rt[c].instancePosts = 0
    /\ rt[c].defaultCalls = 1
    /\ rt[c].defaultPosts = 1
    /\ rt[c].result = Sent

---------------------------------------------------------------------------
(* The recipient's address: customerPhone.replace(/\D/g, "") behind "55" *)

\* the characters a phone is written with
Digits == {"0", "1", "2", "3", "4", "5", "6", "7", "8", "9"}
PhoneChars == {"1", "9", "(", " "}
MaxPhoneLen == 3

RECURSIVE StringsUpTo(_)
StringsUpTo(n) ==
  IF n = 0 THEN {<<>>}
  ELSE LET shorter == StringsUpTo(n - 1)
       IN shorter \cup
          {s \o <<ch>> : s \in {x \in shorter : Len(x) = n - 1},
                         ch \in PhoneChars}

\* "(11) 91234-5678"
ExamplePhone ==
  <<"(", "1", "1", ")", " ", "9", "1", "2", "3", "4", "-", "5", "6", "7", "8">>

PhoneStrings == StringsUpTo(MaxPhoneLen) \cup {ExamplePhone}

\* String.prototype.replace(/\D/, "") on the characters of str: with the g
\* flag every character that is not one of 0-9 is dropped, without it only
\* the first
RECURSIVE replace(_, _)
replace(str, global) ==
  IF str = <<>> THEN <<>>
  ELSE IF Head(str) \in Digits
       THEN <<Head(str)>> \o replace(Tail(str), global)
       ELSE IF global THEN replace(Tail(str), global) ELSE Tail(str)

\* cleanPhone from a regular expression without the g flag
cleanPhoneNotGlobal(customerPhone) == replace(customerPhone, FALSE)

\* const cleanPhone = customerPhone.replace(/\D/g, "")
cleanPhone(customerPhone) == replace(customerPhone, TRUE)

CountryCode == <<"5", "5">>
ChatSuffix == <<"@", "c", ".", "u", "s">>

\* payload.number of sendWhatsAppConfirmation (default session)
defaultNumber(customerPhone) == CountryCode \o cleanPhone(customerPhone)
\* payload.number of sendViaInstance (the barbershop's instance)
instanceNumber(customerPhone) == CountryCode \o cleanPhone(customerPhone)
\* chatId of the WAHA sendWhatsAppConfirmation
chatId(customerPhone) ==
  CountryCode \o cleanPhone(customerPhone) \o ChatSuffix

NoAddress == <<>>

\* Each send path builds the address of its payload from the phone it got
DefaultPayload ==
  /\ post.defaultNumber = NoAddress
  /\ post' = [post EXCEPT !.defaultNumber = defaultNumber(post.phone)]
  /\ UNCHANGED <<profile, envOk, now, cb, sb, inflight, tenants, rt, last,
                 prov, batch, cluster, health, wahaSend, day, sse, sentAt>>

InstancePayload ==
  /\ post.instanceNumber = NoAddress
  /\ post' = [post EXCEPT !.instanceNumber = instanceNumber(post.phone)]
  /\ UNCHANGED <<profile, envOk, now, cb, sb, inflight, tenants, rt, last,
                 prov, batch, cluster, health, wahaSend, day, sse, sentAt>>

WahaPayload ==
  /\ post.chatId = NoAddress
  /\ post' = [post EXCEPT !.chatId = chatId(post.phone)]
  /\ UNCHANGED <<profile, envOk, now, cb, sb, inflight, tenants, rt, last,
                 prov, batch, cluster, health, wahaSend, day, sse, sentAt>>

InitPhone ==
  /\ profile = "backoff"
  /\ envOk = TRUE
  /\ now = StartTime
  /\ cb = InitBreaker
  /\ sb = InitSimpleBreaker
  /\ inflight = 0
  /\ tenants = NoTenants
  /\ rt = NoCalls
  /\ last = [op |-> "none", before |-> cb, inflightBefore |-> 0]
  /\ prov = NoProvisioning
  /\ batch = NoBatch
  /\ cluster = NoWorkers
  /\ \E p \in PhoneStrings :
       post = [phone |-> p, defaultNumber |-> NoAddress,
               instanceNumber |-> NoAddress, chatId |-> NoAddress]
  /\ health = NoHealth
  /\ wahaSend = NoWaha
  /\ day = NoDay
  /\ sse = NoSse
  /\ sentAt = NoSends

NextPhone == DefaultPayload \/ InstancePayload \/ WahaPayload

SpecPhone == InitPhone /\ [][NextPhone]_vars

\* the positions of str that hold a digit
DigitPositions(str) == {i \in 1..Len(str) : str[i] \in Digits}

\* the digits of str, in the order they have in str
DigitsOf(str) ==
  LET pos == DigitPositions(str)
  IN [k \in 1..Cardinality(pos) |->
        str[CHOOSE i \in pos : Cardinality({j \in pos : j <= i}) = k]]

ExampleNumber ==
  <<"5", "5", "1", "1", "9", "1", "2", "3", "4", "5", "6", "7", "8">>

\* C28: Phone normalization.  For every phone string the address posted is
\* "55" followed by the digits of the input in their order and nothing else,
\* the same on the default-session path and on the barbershop-instance path
\* ("(11) 91234-5678" gives 5511912345678); the WAHA transport posts that
\* same number in its chat id form, followed by @c.us.
PhoneNormalization ==
  LET expected == CountryCode \o DigitsOf(post.phone)
  IN /\ post.defaultNumber # NoAddress => post.defaultNumber = expected
     /\ post.instanceNumber # NoAddress => post.instanceNumber = expected
     /\ post.chatId # NoAddress => post.chatId = expected \o ChatSuffix
     /\ post.phone = ExamplePhone => expected = ExampleNumber

\* the three paths have built the address of "(11) 91234-5678"
ExampleNormalized ==
  /\ post.phone = ExamplePhone
  /\ post.defaultNumber = ExampleNumber
  /\ post.instanceNumber = ExampleNumber
  /\ post.chatId = ExampleNumber \o ChatSuffix

---------------------------------------------------------------------------
(* GET /health *)

\* mongoose.connection.readyState: 0 disconnected, 1 connected,
\* 2 connecting, 3 disconnecting; 0 until the application connects
ReadyStates == 0..3
NoReply == <<>>

toLowerCase(s) ==
  CASE s = "CLOSED" -> "closed"
    [] s = "OPEN" -> "open"
    [] s = "HALF_OPEN" -> "half_open"

\* httpCode that also answers 503 while the breaker is not CLOSED
httpCodeCountsBreaker(dbOk, circuitBreaker) ==
  IF dbOk /\ circuitBreaker.state = "CLOSED" THEN 200 ELSE 503

\* const httpCode = dbOk ? 200 : 503, with the breaker's status at hand
httpCode(dbOk, circuitBreaker) == IF dbOk THEN 200 ELSE 503

\* the handler of the detailed route: the code and the body it answers with
healthResponse(dbState, circuitBreaker, t) ==
  LET dbOk == dbState = 1
      whatsapp ==
        [status |-> toLowerCase(circuitBreaker.state),
         healthy |-> circuitBreaker.state = "CLOSED",
         failures |-> circuitBreaker.failures,
         consecutiveFailures |-> circuitBreaker.consecutiveFailures,
         blockedRequests |-> circuitBreaker.totalBlockedRequests]
      retry ==
        [nextRetryInSeconds |-> RoundSeconds(circuitBreaker.nextRetryIn),
         currentDelaySeconds |-> RoundSeconds(circuitBreaker.currentDelayMs)]
  IN [httpCode |-> httpCode(dbOk, circuitBreaker),
      status |-> IF dbOk THEN "healthy" ELSE "unhealthy",
      timestamp |-> t,
      uptime |-> (t - StartTime) \div 1000,
      services |->
        [database |-> [status |-> IF dbOk THEN "connected"
                                  ELSE "disconnected",
                       readyState |-> dbState],
         whatsapp |-> IF circuitBreaker.state # "CLOSED"
                      THEN whatsapp @@ retry
                      ELSE whatsapp]]

\* the handler of the short route
healthResponseShort(dbState, circuitBreaker, t) ==
  LET dbOk == dbState = 1
  IN [httpCode |-> httpCode(dbOk, circuitBreaker),
      status |-> IF dbOk THEN "ok" ELSE "degraded",
      database |-> IF dbOk THEN "connected" ELSE "disconnected",
      whatsapp |-> circuitBreaker.state,
      uptime |-> (t - StartTime) \div 1000]

HealthResponses == {200, 500}
HealthInstants == {StartTime + baseDelayMs}

\* no request to /health is being answered
HealthIdle == health.response = NoReply

\* the connection to MongoDB changes its readyState
ReadyStateChanges(s) ==
  /\ HealthIdle
  /\ s # health.readyState
  /\ health' = [health EXCEPT !.readyState = s]
  /\ UNCHANGED <<profile, envOk, now, cb, sb, inflight, tenants, rt, last,
                 prov, batch, cluster, post, wahaSend, day, sse, sentAt>>

\* GET /health of the detailed route is handled
GetHealth ==
  /\ HealthIdle
  /\ health' =
       [health EXCEPT
          !.route = "detailed",
          !.response =
            healthResponse(health.readyState, getStatus(cb, now), now)]
  /\ UNCHANGED <<profile, envOk, now, cb, sb, inflight, tenants, rt, last,
                 prov, batch, cluster, post, wahaSend, day, sse, sentAt>>

\* GET /health of the short route is handled
GetHealthShort ==
  /\ HealthIdle
  /\ health' =
       [health EXCEPT
          !.route = "short",
          !.response =
            healthResponseShort(health.readyState, getStatus(cb, now), now)]
  /\ UNCHANGED <<profile, envOk, now, cb, sb, inflight, tenants, rt, last,
                 prov, batch, cluster, post, wahaSend, day, sse, sentAt>>

\* the response has gone out to the client
ResponseSent ==
  /\ ~HealthIdle
  /\ health' = [health EXCEPT !.response = NoReply]
  /\ UNCHANGED <<profile, envOk, now, cb, sb, inflight, tenants, rt, last,
                 prov, batch, cluster, post, wahaSend, day, sse, sentAt>>

InitHealth ==
  /\ profile = "backoff"
  /\ envOk = TRUE
  /\ now = StartTime
  /\ cb = InitBreaker
  /\ sb = InitSimpleBreaker
  /\ inflight = 0
  /\ tenants = NoTenants
  /\ rt = NoCalls
  /\ last = [op |-> "none", before |-> cb, inflightBefore |-> 0]
  /\ prov = NoProvisioning
  /\ batch = NoBatch
  /\ cluster = NoWorkers
  /\ post = NoPost
  /\ health = [readyState |-> 0, route |-> "detailed", response |-> NoReply]
  /\ wahaSend = NoWaha
  /\ day = NoDay
  /\ sse = NoSse
  /\ sentAt = NoSends

\* the sends that move the breaker go on between the requests to /health
SendStartsMeanwhile == HealthIdle /\ SendStart
SendFinishesMeanwhile(resp) == HealthIdle /\ SendFinish(resp)
TimePassesMeanwhile(t) == HealthIdle /\ Tick(t)

NextHealth ==
  \/ SendStartsMeanwhile
  \/ \E resp \in HealthResponses : SendFinishesMeanwhile(resp)
  \/ \E t \in HealthInstants : TimePassesMeanwhile(t)
  \/ \E s \in ReadyStates : ReadyStateChanges(s)
  \/ GetHealth
  \/ GetHealthShort
  \/ ResponseSent

SpecHealth == InitHealth /\ [][NextHealth]_vars

\* breakers in every state, with different counters and delays
OtherBreakers ==
  {afterFailures(n, StartTime) : n \in 0..(MaxFailures - 1)}
    \cup {canRequest(afterFailures(n, StartTime), StartTime).cb :
            n \in 0..(MaxFailures - 1)}
    \cup {canRequest(afterFailures(n, StartTime), StartTime + maxDelayMs).cb :
            n \in 0..(MaxFailures - 1)}

\* the answer the route of the latest response gives for a readyState and a
\* breaker
Answer(route, dbState, b) ==
  IF route = "detailed"
  THEN healthResponse(dbState, getStatus(b, now), now)
  ELSE healthResponseShort(dbState, getStatus(b, now), now)

\* C29: the status and the HTTP code of the health endpoint depend on the
\* database connection state alone: with the same readyState and any other
\* circuit breaker (CLOSED, OPEN or HALF_OPEN, any counters), the endpoint
\* answers with the same status and the same HTTP code.
HealthIgnoresBreaker ==
  ~HealthIdle =>
    /\ health.response =
         Answer(health.route, health.readyState, cb)
    /\ \A b \in OtherBreakers :
         LET other == Answer(health.route, health.readyState, b)
         IN /\ other.status = health.response.status
            /\ other.httpCode = health.response.httpCode
    /\ health.response.httpCode = 200 <=> health.readyState = 1

\* with the database connected and the breaker OPEN the detailed route
\* answered 200 healthy, reporting the breaker as open
HealthyWhileOpen ==
  /\ ~HealthIdle
  /\ health.route = "detailed"
  /\ health.readyState = 1
  /\ cb.state = "OPEN"
  /\ health.response.httpCode = 200
  /\ health.response.status = "healthy"
  /\ health.response.services.whatsapp.status = "open"
  /\ health.response.services.whatsapp.healthy = FALSE

---------------------------------------------------------------------------
(* sendWhatsAppConfirmation of the WAHA transport: typing, a pause, the text.
   Its circuitBreaker object is the fixed-cooldown one, held in sb. *)

TypingMinMs == 2000
TypingMaxMs == 3000
MaxWahaSends == 6
MaxLatePosts == 2

\* Math.floor(Math.random() * (maxMs - minMs + 1)) + minMs
randomDelayBetween(minMs, maxMs, r) ==
  ((r * (maxMs - minMs + 1)) \div RandomUnits) + minMs

\* afterTyping that lets a failed presence call reach the outer catch
afterTypingThrows(resp) == IF resp = 200 THEN "wait" ELSE "catch"

\* what follows the presence call: its error is caught and logged on the
\* spot, so the pause follows whatever the answer
afterTyping(resp) == "wait"

\* the axios timeout of the presence post
typingTimeoutMs == 5000

\* pc is the await the call is suspended at and since the date it began (the
\* post was made, the timer was set); events lists what the call has done on
\* the network and the timer; reports lists what it told the breaker; sends
\* counts the calls made so far
IdleWaha ==
  [pc |-> "idle", since |-> NoTime, late |-> 0, events |-> <<>>,
   typingResp |-> NoResponse, delay |-> 0,
   sendTextResp |-> NoResponse, reports |-> <<>>,
   admitted |-> InitSimpleBreaker, result |-> "none", sends |-> 0]

WahaResponses == {200, 500, NoResponse}

\* A caller invokes sendWhatsAppConfirmation(customerPhone, message) with a
\* phone string: configuration check, canRequest(), then the presence post
WahaSendStart ==
  /\ wahaSend.pc \in {"idle", "returned"}
  /\ wahaSend.sends < MaxWahaSends
  /\ LET w == [IdleWaha EXCEPT !.sends = wahaSend.sends + 1,
                             !.late = wahaSend.late]
         c == simpleCanRequest(sb, now)
     IN IF ~envOk
        THEN /\ wahaSend' = [w EXCEPT !.pc = "returned", !.result = "config",
                                      !.admitted = sb]
             /\ sb' = sb
        ELSE IF ~c.ret
             THEN /\ wahaSend' = [w EXCEPT !.pc = "returned",
                                           !.result = "blocked",
                                           !.admitted = c.cb]
                  /\ sb' = c.cb
             ELSE /\ wahaSend' = [w EXCEPT !.pc = "typing", !.since = now,
                                           !.events = <<"presence">>,
                                           !.admitted = c.cb]
                  /\ sb' = c.cb
  /\ UNCHANGED <<profile, envOk, now, cb, inflight, tenants, rt, last, prov,
                 batch, cluster, post, health, day, sse, sentAt>>

\* the latest date at which the await of the call ends: the timeout of the
\* post awaited, or the firing of the timer
wahaDeadline(w) ==
  CASE w.pc = "typing" -> w.since + typingTimeoutMs
    [] w.pc = "wait" -> w.since + w.delay
    [] w.pc = "sendText" -> w.since + requestTimeoutMs
    [] OTHER -> NoTime

\* the dates at which the clock is read while the call awaits: a post is
\* answered late or times out, the timer fires
wahaInstants(w) ==
  CASE w.pc \in {"typing", "sendText"} ->
         {w.since + SlowAnswerMs, wahaDeadline(w)}
    [] w.pc = "wait" -> {wahaDeadline(w)}
    [] OTHER -> {}

\* a post ends with an answer before its timeout; with no answer it ends when
\* the connection fails, at the timeout at the latest
postEnds(w, resp) == resp # NoResponse => now < wahaDeadline(w)

\* the call awaits a post that was made at an earlier date
postIsLate(w) == w.pc \in {"typing", "sendText"} /\ now > w.since

\* Time passes while the call awaits a post or its timer.  late counts the
\* posts that did not end at the date they were made; at most MaxLatePosts
\* of the posts followed are let take time.
WahaTimePasses ==
  /\ \/ wahaSend.pc = "wait"
     \/ postIsLate(wahaSend)
     \/ wahaSend.late < MaxLatePosts
  /\ \E t \in wahaInstants(wahaSend) :
       /\ t > now
       /\ t <= wahaDeadline(wahaSend)
       /\ now' = t
  /\ wahaSend' = IF wahaSend.pc = "wait" \/ postIsLate(wahaSend)
                 THEN wahaSend
                 ELSE [wahaSend EXCEPT !.late = @ + 1]
  /\ UNCHANGED <<profile, envOk, cb, sb, inflight, tenants, rt, last, prov,
                 batch, cluster, post, health, day, sse, sentAt>>

\* the presence post is answered, fails or times out; then randomDelay and
\* the timer are set up
WahaTypingDone(resp, r) ==
  /\ wahaSend.pc = "typing"
  /\ postEnds(wahaSend, resp)
  /\ IF afterTyping(resp) = "wait"
     THEN /\ wahaSend' =
               [wahaSend EXCEPT
                  !.pc = "wait", !.since = now, !.typingResp = resp,
                  !.delay = randomDelayBetween(TypingMinMs, TypingMaxMs, r),
                  !.events = Append(@, "wait")]
          /\ sb' = sb
     ELSE /\ wahaSend' =
               [wahaSend EXCEPT
                  !.pc = "returned", !.since = NoTime, !.typingResp = resp,
                  !.reports = Append(@, "failure"), !.result = "failed"]
          /\ sb' = simpleRecordFailure(sb, now)
  /\ UNCHANGED <<profile, envOk, now, cb, inflight, tenants, rt, last, prov,
                 batch, cluster, post, health, day, sse, sentAt>>

\* the timer fires, delay ms after it was set, and the text is posted
WahaWaitDone ==
  /\ wahaSend.pc = "wait"
  /\ now = wahaSend.since + wahaSend.delay
  /\ wahaSend' = [wahaSend EXCEPT !.pc = "sendText", !.since = now,
                                  !.events = Append(@, "sendText")]
  /\ UNCHANGED <<profile, envOk, now, cb, sb, inflight, tenants, rt, last,
                 prov, batch, cluster, post, health, day, sse, sentAt>>

\* the sendText post is answered, fails or times out: recordSuccess, or
\* recordFailure with Date.now() at that moment
WahaSendTextDone(resp) ==
  /\ wahaSend.pc = "sendText"
  /\ postEnds(wahaSend, resp)
  /\ IF resp = 200
     THEN /\ sb' = simpleRecordSuccess(sb)
          /\ wahaSend' = [wahaSend EXCEPT
                            !.pc = "returned", !.since = NoTime,
                            !.sendTextResp = resp,
                            !.reports = Append(@, "success"),
                            !.result = "sent"]
     ELSE /\ sb' = simpleRecordFailure(sb, now)
          /\ wahaSend' = [wahaSend EXCEPT
                            !.pc = "returned", !.since = NoTime,
                            !.sendTextResp = resp,
                            !.reports = Append(@, "failure"),
                            !.result = "failed"]
  /\ UNCHANGED <<profile, envOk, now, cb, inflight, tenants, rt, last, prov,
                 batch, cluster, post, health, day, sse, sentAt>>

\* the cooldown passes between two calls
WahaCooldownPasses ==
  /\ wahaSend.pc = "returned"
  /\ sb.state = "OPEN"
  /\ now - TimeOf(sb.lastFailureTime) < cooldownMs
  /\ now' = TimeOf(sb.lastFailureTime) + cooldownMs
  /\ UNCHANGED <<profile, envOk, cb, sb, inflight, tenants, rt, last, prov,
                 batch, cluster, post, health, wahaSend, day, sse, sentAt>>

InitWaha ==
  /\ profile = "waha"
  /\ envOk \in BOOLEAN
  /\ now = StartTime
  /\ cb = InitBreaker
  /\ sb = InitSimpleBreaker
  /\ inflight = 0
  /\ tenants = NoTenants
  /\ rt = NoCalls
  /\ last = [op |-> "none", before |-> sb, inflightBefore |-> 0]
  /\ prov = NoProvisioning
  /\ batch = NoBatch
  /\ cluster = NoWorkers
  /\ post = NoPost
  /\ health = NoHealth
  /\ wahaSend = IdleWaha
  /\ day = NoDay
  /\ sse = NoSse
  /\ sentAt = NoSends

NextWaha ==
  \/ WahaSendStart
  \/ \E resp \in WahaResponses, r \in RandomValues : WahaTypingDone(resp, r)
  \/ WahaWaitDone
  \/ \E resp \in WahaResponses : WahaSendTextDone(resp)
  \/ WahaTimePasses
  \/ WahaCooldownPasses

SpecWaha == InitWaha /\ [][NextWaha]_vars

TypingSequence == <<"presence", "wait", "sendText">>

\* what the call has done at each of its awaits and when it has returned
TypingOrder ==
  LET w == wahaSend
  IN /\ w.pc = "typing" => w.events = SubSeq(TypingSequence, 1, 1)
     /\ w.pc = "wait" => w.events = SubSeq(TypingSequence, 1, 2)
     /\ w.pc = "sendText" => w.events = TypingSequence
     /\ w.pc \in {"wait", "sendText"} =>
          w.delay >= TypingMinMs /\ w.delay <= TypingMaxMs
     /\ w.pc \in {"typing", "wait", "sendText"} =>
          w.reports = <<>> /\ sb = w.admitted
     /\ w.pc = "returned" /\ w.result \in {"config", "blocked"} =>
          w.events = <<>> /\ w.reports = <<>> /\ sb = w.admitted
     /\ w.pc = "returned" /\ w.result \notin {"config", "blocked"} =>
          /\ w.events = TypingSequence
          /\ w.delay >= TypingMinMs /\ w.delay <= TypingMaxMs
          /\ w.reports =
               <<IF w.sendTextResp = 200 THEN "success" ELSE "failure">>
          /\ w.result = IF w.sendTextResp = 200 THEN "sent" ELSE "failed"

\* what each step of the call does to the breaker and when it is taken
TypingSteps ==
  LET w == wahaSend
  IN /\ w.pc = "typing" /\ w'.pc # "typing" =>
          /\ w'.pc = "wait" /\ w'.since = now
          /\ now <= w.since + typingTimeoutMs
          /\ sb' = sb
     /\ w.pc = "wait" /\ w'.pc # "wait" =>
          /\ w'.pc = "sendText" /\ w'.since = now
          /\ now - w.since = w.delay
          /\ sb' = sb
     /\ w.pc = "sendText" /\ w'.pc # "sendText" =>
          /\ w'.pc = "returned"
          /\ now <= w.since + requestTimeoutMs
          /\ sb' = IF w'.sendTextResp = 200
                   THEN simpleRecordSuccess(w.admitted)
                   ELSE simpleRecordFailure(w.admitted, now)

\* C30: In the typing-signal transport a send that passes the breaker check
\* makes one presence call, then waits 2000 to 3000 ms from the end of that
\* call, then makes exactly one sendText call; a failed presence call neither
\* prevents the sendText call nor is recorded as a breaker failure, and the
\* breaker is told one thing per send, the outcome of sendText, a failure
\* with the date at which the sendText call failed.
TypingThenText == []TypingOrder /\ [][TypingSteps]_vars

\* the presence call failed and the text was sent all the same, with no
\* failure on the breaker
SentAfterTypingFailed ==
  /\ wahaSend.pc = "returned"
  /\ wahaSend.typingResp = 500
  /\ wahaSend.events = TypingSequence
  /\ wahaSend.result = "sent"
  /\ wahaSend.reports = <<"success">>
  /\ sb.failures = 0
  /\ sb.state = "CLOSED"
  /\ now >= StartTime + TypingMinMs

---------------------------------------------------------------------------
(* Further properties of the two profiles, checked under Spec *)

\* C31: Fixed-cooldown profile.  In the simple breaker the failure that
\* brings the count to simpleFailureThreshold or beyond leaves it OPEN; while
\* it is OPEN a send is rejected, with no network call and the breaker left
\* as it was, as long as less than cooldownMs have passed since the latest
\* failure; the first send from then on is admitted as a probe (HALF_OPEN);
\* and a failed probe leaves the breaker OPEN with the cooldown counted from
\* that failure.
FixedCooldown ==
  Simple =>
    /\ last.op = "failure" /\ sb.failures >= simpleFailureThreshold =>
         sb.state = "OPEN" /\ sb.lastFailureTime = now /\ ~SimpleCanProceedNow
    /\ sb.state = "OPEN" =>
         (SimpleCanProceedNow <=> now - sb.lastFailureTime >= cooldownMs)
    /\ last.op = "blocked" =>
         /\ last.before.state # "CLOSED"
         /\ now - last.before.lastFailureTime < cooldownMs
         /\ inflight = last.inflightBefore
         /\ sb = last.before
    /\ last.op = "admitted" /\ last.before.state = "OPEN" =>
         /\ now - last.before.lastFailureTime >= cooldownMs
         /\ sb.state = "HALF_OPEN"
         /\ inflight = last.inflightBefore + 1
    /\ last.op = "failure" /\ last.before.state = "HALF_OPEN" =>
         /\ sb.state = "OPEN"
         /\ sb.lastFailureTime = now
         /\ ~SimpleCanProceedNow

\* the probe sent after the cooldown failed and the breaker is OPEN again
SimpleProbeFailed ==
  /\ Simple
  /\ last.op = "failure"
  /\ last.before.state = "HALF_OPEN"
  /\ last.before.failures = simpleFailureThreshold
  /\ now - last.before.lastFailureTime >= cooldownMs
  /\ sb.state = "OPEN"
  /\ sb.lastFailureTime = now

\* C32: in every reachable state of the exponential-backoff breaker, with
\* sends overlapping in any order, a state other than CLOSED implies
\* consecutiveFailures >= failureThreshold.
BlockingNeedsThreshold ==
  Backoff /\ cb.state # "CLOSED" => cb.consecutiveFailures >= failureThreshold

\* one of several probes in flight failed and the breaker is OPEN again
OneOfSeveralProbesFailed ==
  /\ Backoff
  /\ last.op = "failure"
  /\ last.before.state = "HALF_OPEN"
  /\ last.inflightBefore >= 2
  /\ cb.state = "OPEN"
  /\ cb.consecutiveFailures > failureThreshold

\* C34: a default-session send made while the gateway URL or the API key is
\* missing returns the configuration failure with no network call and
\* without consulting or changing the breaker, whatever the breaker's state;
\* without configuration the breaker stays as it was constructed.
MissingConfigLeavesBreaker ==
  /\ Backoff =>
       confirmationStart(cb, now, FALSE) =
         [breaker |-> cb, posted |-> FALSE, result |-> ConfigMissing]
  /\ Simple =>
       simpleConfirmationStart(sb, now, FALSE) =
         [breaker |-> sb, posted |-> FALSE, result |-> ConfigMissing]
  /\ last.op = "config" =>
       Breaker = last.before /\ inflight = last.inflightBefore
  /\ ~envOk => cb = InitBreaker /\ sb = InitSimpleBreaker /\ inflight = 0
  /\ profile = "waha" =>
       /\ wahaSend.result = "config" =>
            /\ wahaSend.events = <<>>
            /\ wahaSend.reports = <<>>
            /\ sb = wahaSend.admitted
       /\ ~envOk => sb = InitSimpleBreaker

\* a send returned for want of configuration
ReturnedConfigMissing ==
  /\ Backoff
  /\ ~envOk
  /\ last.op = "config"
  /\ cb = InitBreaker
  /\ inflight = 0

---------------------------------------------------------------------------
(* Attempts per call of the router, checked under SpecRouter *)

\* C33: one call of sendWhatsAppMessage posts at most once to the
\* barbershop's instance and at most once to the default session, whatever
\* the lookup delivers, whatever the gateway answers and whether or not the
\* write of the status goes through.
AtMostOneAttemptPerSession ==
  \A c \in Calls :
    /\ rt[c].instancePosts <= 1
    /\ rt[c].defaultPosts <= 1
    /\ rt[c].defaultCalls <= 1
    /\ rt[c].updates <= 1

\* the post to the instance was answered 404, the write went through, the
\* default session was tried once and failed too, and the call returned
BothSessionsTriedOnce ==
  \E c \in Calls :
    /\ rt[c].pc = "returned"
    /\ rt[c].instancePosts = 1
    /\ rt[c].instanceResp = 404
    /\ rt[c].updated
    /\ rt[c].defaultPosts = 1
    /\ ~rt[c].result.success
    /\ rt[c].result.status = 500

---------------------------------------------------------------------------
(* The day of sendDailyReminders: which of the two runs takes a booking.
   Instants are whole hours, counted in UTC from the midnight before the
   Sao Paulo day begins. *)

\* America/Sao_Paulo is three hours behind UTC
BrazilOffsetHours == 3
HoursPerDay == 24

\* toZonedTime(date, BRAZIL_TZ): the instant as the Sao Paulo wall clock
toZonedTime(utc) == utc - BrazilOffsetHours
\* fromZonedTime(date, BRAZIL_TZ): the instant of a Sao Paulo wall clock time
fromZonedTime(wall) == wall + BrazilOffsetHours
startOfDay(wall) == wall - (wall % HoursPerDay)
\* endOfDay is the last millisecond of the day; with $lt and whole hours it
\* bounds the query as the next midnight does
endOfDay(wall) == startOfDay(wall) + HoursPerDay
getHours(wall) == wall % HoursPerDay

\* Booking.find({time: {$gte: start, $lt: end}, status: "booked"}) at nowUtc
inQuery(bk, nowUtc) ==
  LET nowInBrazil == toZonedTime(nowUtc)
      start == fromZonedTime(startOfDay(nowInBrazil))
      end == fromZonedTime(endOfDay(nowInBrazil))
  IN bk.time >= start /\ bk.time < end /\ bk.status = "booked"

\* the ms by which a job that node-cron fires at the hour reads new Date()
\* after the hour has begun
CronLagsMs == {0, 1}

\* new Date() read lag ms into the hour, in ms
dateAt(hour, lag) == hour * HourMs + lag

\* the filter of updateExpiredBookings with now = nowMs:
\* {time: {$lt: now}, status: {$in: ["booked", "confirmed"]}};
\* the booking's time is stored on the whole hour
expires(bk, nowMs) ==
  dateAt(bk.time, 0) < nowMs /\ bk.status \in {"booked", "confirmed"}

\* the booking as the loop sees it
populated(bk) ==
  [customer |-> bk.customer, barbershop |-> bk.barbershop,
   barber |-> bk.barber, hour |-> getHours(toZonedTime(bk.time))]

\* the run of triggerHour at nowUtc gets the booking from the query and does
\* not skip it
selects(bk, triggerHour, nowUtc) ==
  inQuery(bk, nowUtc) /\ ~skips(populated(bk), triggerHour)

\* bookings of the evening before, of the day, and of the night after
BookingTimes == 0..(HoursPerDay + 2 * BrazilOffsetHours - 1)
DayBegins == fromZonedTime(0)
DayEnds == fromZonedTime(HoursPerDay - 1)

\* the most hours an updateMany call is followed unanswered
MaxPendingHours == 1

\* the trigger whose cron expression matches the Sao Paulo hour of the clock
\* and whose job has not been called yet
Due(h) == getHours(toZonedTime(day.clock)) = h /\ h \notin day.fired

\* The clock reaches the next hour, node-cron having called the jobs of this
\* hour.  What Booking.find and updateMany calls MongoDB has not answered
\* stay pending.
DayClockAdvances ==
  /\ day.clock < DayEnds
  /\ day.expired
  /\ \A h \in TriggerHours : ~Due(h)
  /\ \A nowMs \in day.writes :
       nowMs >= dateAt(day.clock + 1 - MaxPendingHours, 0)
  /\ day' = [day EXCEPT !.clock = @ + 1, !.expired = FALSE]
  /\ UNCHANGED <<profile, envOk, now, cb, sb, inflight, tenants, rt, last,
                 prov, batch, cluster, post, health, wahaSend, sse, sentAt>>

\* node-cron calls the hourly job (at the first hour, the module calls it at
\* load): updateExpiredBookings reads new Date(), lag ms into the hour, and
\* issues updateMany with that date in its filter
ExpiryFires(lag) ==
  /\ ~day.expired
  /\ day' = [day EXCEPT !.expired = TRUE,
                        !.writes = @ \cup {dateAt(day.clock, lag)}]
  /\ UNCHANGED <<profile, envOk, now, cb, sb, inflight, tenants, rt, last,
                 prov, batch, cluster, post, health, wahaSend, sse, sentAt>>

\* MongoDB answers an updateMany of updateExpiredBookings: the booking is
\* completed if its time is before the date of the filter, or updateMany
\* rejects and the catch logs it
ExpiryRun(ok) ==
  /\ \E nowMs \in day.writes :
       day' = [day EXCEPT
                 !.writes = @ \ {nowMs},
                 !.booking.status =
                   IF ok /\ expires(day.booking, nowMs)
                   THEN "completed" ELSE @]
  /\ UNCHANGED <<profile, envOk, now, cb, sb, inflight, tenants, rt, last,
                 prov, batch, cluster, post, health, wahaSend, sse, sentAt>>

\* node-cron calls sendDailyReminders(h): it reads new Date(), builds the
\* filter of the day from it and issues Booking.find.  finds[h] is the hour
\* of that date.
ReminderFires(h) ==
  /\ Due(h)
  /\ day' = [day EXCEPT !.fired = @ \cup {h},
                        !.finds = [x \in DOMAIN @ \cup {h} |->
                                     IF x = h THEN day.clock ELSE @[x]]]
  /\ UNCHANGED <<profile, envOk, now, cb, sb, inflight, tenants, rt, last,
                 prov, batch, cluster, post, health, wahaSend, sse, sentAt>>

\* the pending queries without that of run h
answered(finds, h) == [x \in DOMAIN finds \ {h} |-> finds[x]]

\* MongoDB answers the Booking.find of sendDailyReminders(h), with the status
\* the booking has by then, and the loop makes its tests; or Booking.find
\* rejects, the catch around the run logs it and the run has selected
\* nothing.  bookedAt holds the runs whose query was answered while the
\* booking had status "booked".
ReminderRun(h, ok) ==
  /\ h \in DOMAIN day.finds
  /\ day' = [day EXCEPT
               !.finds = answered(@, h),
               !.ran = @ \cup {h},
               !.rejected = IF ok THEN @ ELSE @ \cup {h},
               !.bookedAt =
                 IF ok /\ day.booking.status = "booked"
                 THEN @ \cup {h} ELSE @,
               !.selectedBy =
                 IF ok /\ selects(day.booking, h, day.finds[h])
                 THEN @ \cup {h} ELSE @]
  /\ UNCHANGED <<profile, envOk, now, cb, sb, inflight, tenants, rt, last,
                 prov, batch, cluster, post, health, wahaSend, sse, sentAt>>

InitDay ==
  /\ profile = "backoff"
  /\ envOk = TRUE
  /\ now = StartTime
  /\ cb = InitBreaker
  /\ sb = InitSimpleBreaker
  /\ inflight = 0
  /\ tenants = NoTenants
  /\ rt = NoCalls
  /\ last = [op |-> "none", before |-> cb, inflightBefore |-> 0]
  /\ prov = NoProvisioning
  /\ batch = NoBatch
  /\ cluster = NoWorkers
  /\ post = NoPost
  /\ health = NoHealth
  /\ wahaSend = NoWaha
  /\ \E time \in BookingTimes, c, s, b \in BOOLEAN :
       day = [booking |-> [time |-> time, status |-> "booked",
                           customer |-> c, barbershop |-> s, barber |-> b],
              clock |-> DayBegins, expired |-> FALSE, writes |-> {},
              fired |-> {}, finds |-> <<>>, ran |-> {},
              rejected |-> {}, bookedAt |-> {}, selectedBy |-> {}]
  /\ sse = NoSse
  /\ sentAt = NoSends

NextDay ==
  \/ DayClockAdvances
  \/ \E lag \in CronLagsMs : ExpiryFires(lag)
  \/ \E ok \in BOOLEAN : ExpiryRun(ok)
  \/ \E h \in TriggerHours : ReminderFires(h)
  \/ \E h \in TriggerHours, ok \in BOOLEAN : ReminderRun(h, ok)

SpecDay == InitDay /\ [][NextDay]_vars

\* the booking falls on the Sao Paulo calendar day of the clock
BookingOfTheDay ==
  (day.booking.time - BrazilOffsetHours) \div HoursPerDay =
    (day.clock - BrazilOffsetHours) \div HoursPerDay
DataPresent ==
  day.booking.customer /\ day.booking.barbershop /\ day.booking.barber
\* the appointment hour on the Sao Paulo clock
AppointmentHour == (day.booking.time - BrazilOffsetHours) % HoursPerDay

\* C35 as stated: Daily reminder selection partitions the day.  A booking of
\* the day with all its data present is selected by exactly one of the two
\* runs: by the 8h run when its Sao Paulo hour is below 13, by the 13h run
\* otherwise.  No booking is ever selected by both, and a booking of another
\* day or with data missing by none.
SelectionPartitionsDay ==
  /\ Cardinality(day.selectedBy) <= 1
  /\ day.selectedBy \subseteq day.ran
  /\ BookingOfTheDay /\ DataPresent =>
       /\ 8 \in day.ran /\ AppointmentHour < 13 => day.selectedBy = {8}
       /\ 13 \in day.ran /\ AppointmentHour >= 13 => day.selectedBy = {13}
       /\ AppointmentHour >= 13 => 8 \notin day.selectedBy
       /\ AppointmentHour < 13 => 13 \notin day.selectedBy
  /\ ~(BookingOfTheDay /\ DataPresent) => day.selectedBy = {}

\* C35: the selection partitions the bookings the runs find.  A booking of
\* the day with all its data present that still has status "booked" when
\* Booking.find of the run of its half of the day is answered is selected by
\* that run, the 8h run when its Sao Paulo hour is below 13 and the 13h run
\* otherwise, and by no other; a booking that updateExpiredBookings has
\* completed by then, one whose run had its Booking.find rejected, one of
\* another day or one with data missing is selected by none.
SelectionPartitionsBooked ==
  /\ Cardinality(day.selectedBy) <= 1
  /\ day.selectedBy \subseteq (day.ran \cap day.bookedAt) \ day.rejected
  /\ day.bookedAt \cap day.rejected = {}
  /\ BookingOfTheDay /\ DataPresent =>
       /\ 8 \in day.bookedAt /\ AppointmentHour < 13 => day.selectedBy = {8}
       /\ 13 \in day.bookedAt /\ AppointmentHour >= 13 => day.selectedBy = {13}
       /\ AppointmentHour >= 13 => 8 \notin day.selectedBy
       /\ AppointmentHour < 13 => 13 \notin day.selectedBy
  /\ ~(BookingOfTheDay /\ DataPresent) => day.selectedBy = {}

\* both runs are over and a booking of the early morning, completed before
\* the 8h run, was selected by neither
EarlyBookingNeverSelected ==
  /\ day.ran = TriggerHours
  /\ DataPresent
  /\ BookingOfTheDay
  /\ AppointmentHour < 8
  /\ day.booking.status = "completed"
  /\ day.bookedAt = {}
  /\ day.selectedBy = {}

\* both runs are over and the 13h appointment was taken by the 13h run alone
ThirteenTakenByAfternoonRun ==
  /\ day.ran = TriggerHours
  /\ DataPresent
  /\ BookingOfTheDay
  /\ AppointmentHour = 13
  /\ day.rejected = {}
  /\ day.bookedAt = TriggerHours
  /\ day.selectedBy = {13}

---------------------------------------------------------------------------
(* sseService.js: the SSE connections of each barbershop *)

MAX_CONNECTIONS_PER_BARBERSHOP == 10
MaxSseClients == 12
MaxSseRemovals == 2

\* the elements of a list
Range(list) == {list[i] : i \in 1..Len(list)}
\* barbershopClients.filter((c) => c !== client)
filter(list, client) == SelectSeq(list, LAMBDA c : c # client)
\* a Map without the key
delete(map, key) == [k \in DOMAIN map \ {key} |-> map[k]]
\* map.set(key, value)
set(map, key, value) ==
  [k \in DOMAIN map \cup {key} |-> IF k = key THEN value ELSE map[k]]

\* clients maps a barbershop to its list (the empty list stands for no key),
\* clientMetadata maps a client to the barbershop of its entry, timers holds
\* the clients whose setTimeout is pending, ended those whose end() was
\* called.  evicted and removed remember the clients that addClient shifted
\* out and that removeClient was called for; addedTo, closed, next and
\* removals are the callers' side: where each client was added, whose close
\* event has been handled, the next connection, the removals so far.
EmptySse ==
  [clients |-> [s \in Shops |-> <<>>], clientMetadata |-> <<>>,
   timers |-> {}, ended |-> {}, evicted |-> {}, removed |-> {},
   addedTo |-> <<>>, closed |-> {}, next |-> 1, removals |-> 0]

\* the eviction of addClient without clearTimeout
evictOldestKeepsTimeout(s, barbershopId) ==
  LET oldestClient == Head(s.clients[barbershopId])
  IN [s EXCEPT !.clients[barbershopId] = Tail(@),
               !.clientMetadata = delete(@, oldestClient),
               !.ended = @ \cup {oldestClient},
               !.evicted = @ \cup {oldestClient}]

\* shift(), clearTimeout of the oldest client's timeout if it has metadata,
\* clientMetadata.delete, oldestClient.end()
evictOldest(s, barbershopId) ==
  LET oldestClient == Head(s.clients[barbershopId])
  IN [s EXCEPT !.clients[barbershopId] = Tail(@),
               !.timers = IF oldestClient \in DOMAIN s.clientMetadata
                          THEN @ \ {oldestClient} ELSE @,
               !.clientMetadata = delete(@, oldestClient),
               !.ended = @ \cup {oldestClient},
               !.evicted = @ \cup {oldestClient}]

addClient(s, barbershopId, client) ==
  LET s1 == IF Len(s.clients[barbershopId]) >= MAX_CONNECTIONS_PER_BARBERSHOP
            THEN evictOldest(s, barbershopId)
            ELSE s
  IN [s1 EXCEPT !.clients[barbershopId] = Append(@, client),
                !.timers = @ \cup {client},
                !.clientMetadata = set(@, client, barbershopId)]

removeClient(s, barbershopId, client) ==
  [s EXCEPT !.clients[barbershopId] = filter(@, client),
            !.timers = IF client \in DOMAIN s.clientMetadata
                       THEN @ \ {client} ELSE @,
            !.clientMetadata = delete(@, client),
            !.removed = @ \cup {client}]

\* deadClients.forEach((client) => removeClient(barbershopId, client))
RECURSIVE removeAll(_, _, _)
removeAll(s, barbershopId, deadClients) ==
  IF deadClients = {} THEN s
  ELSE LET client == CHOOSE c \in deadClients : TRUE
       IN removeAll(removeClient(s, barbershopId, client), barbershopId,
                    deadClients \ {client})

\* dead are the clients whose write() throws
sendEventToBarbershop(s, barbershopId, dead) ==
  IF Len(s.clients[barbershopId]) > 0
  THEN removeAll(s, barbershopId, dead)
  ELSE s

SseUnchanged ==
  UNCHANGED <<profile, envOk, now, cb, sb, inflight, tenants, rt, last, prov,
              batch, cluster, post, health, wahaSend, day, sentAt>>

\* GET /:id/events: a new connection is registered.  The second barbershop
\* gets one connection.
ClientConnects(barbershopId) ==
  /\ sse.next <= MaxSseClients
  /\ barbershopId = "shopB" =>
       \A c \in DOMAIN sse.addedTo : sse.addedTo[c] # barbershopId
  /\ LET client == sse.next
     IN sse' = [addClient(sse, barbershopId, client) EXCEPT
                  !.addedTo = set(@, client, barbershopId),
                  !.next = @ + 1]
  /\ SseUnchanged

\* req.on("close"): removeClient(id, res); res.end()
ClientCloses(client) ==
  /\ client \in DOMAIN sse.addedTo
  /\ client \notin sse.closed
  /\ sse.removals < MaxSseRemovals
  /\ sse' = [removeClient(sse, sse.addedTo[client], client) EXCEPT
               !.ended = @ \cup {client},
               !.closed = @ \cup {client},
               !.removals = @ + 1]
  /\ SseUnchanged

\* the setTimeout callback of addClient, after CONNECTION_TIMEOUT_MS
ConnectionTimesOut(client) ==
  /\ client \in sse.timers
  /\ sse.removals < MaxSseRemovals
  /\ LET fired == [sse EXCEPT !.timers = @ \ {client}]
     IN sse' = [removeClient(fired, sse.addedTo[client], client) EXCEPT
                  !.ended = @ \cup {client},
                  !.removals = @ + 1]
  /\ SseUnchanged

\* the sets of at most k elements of S
RECURSIVE SubsetsUpTo(_, _)
SubsetsUpTo(S, k) ==
  IF k = 0 THEN {{}}
  ELSE LET smaller == SubsetsUpTo(S, k - 1)
       IN smaller \cup {T \cup {x} : T \in smaller, x \in S}

\* sendEventToBarbershop is called and write() throws for the dead clients
EventSent(barbershopId) ==
  /\ \E dead \in SubsetsUpTo(Range(sse.clients[barbershopId]),
                              MaxSseRemovals - sse.removals) :
       sse' = [sendEventToBarbershop(sse, barbershopId, dead) EXCEPT
                 !.removals = @ + Cardinality(dead)]
  /\ SseUnchanged

InitSse ==
  /\ profile = "backoff"
  /\ envOk = TRUE
  /\ now = StartTime
  /\ cb = InitBreaker
  /\ sb = InitSimpleBreaker
  /\ inflight = 0
  /\ tenants = NoTenants
  /\ rt = NoCalls
  /\ last = [op |-> "none", before |-> cb, inflightBefore |-> 0]
  /\ prov = NoProvisioning
  /\ batch = NoBatch
  /\ cluster = NoWorkers
  /\ post = NoPost
  /\ health = NoHealth
  /\ wahaSend = NoWaha
  /\ day = NoDay
  /\ sse = EmptySse
  /\ sentAt = NoSends

NextSse ==
  \/ \E s \in Shops : ClientConnects(s)
  \/ \E c \in 1..MaxSseClients : ClientCloses(c)
  \/ \E c \in 1..MaxSseClients : ConnectionTimesOut(c)
  \/ \E s \in Shops : EventSent(s)

SpecSse == InitSse /\ [][NextSse]_vars

\* the clients registered for some barbershop
Registered == UNION {Range(sse.clients[s]) : s \in Shops}

\* every barbershop's list is within the limit; every client that was
\* evicted or removed is registered nowhere, has no pending timeout and no
\* metadata entry; an evicted client was ended and was older than every
\* client left in its barbershop's list; a registered client has the
\* metadata of its barbershop.
RegistryConsistent ==
  /\ \A s \in Shops : Len(sse.clients[s]) <= MAX_CONNECTIONS_PER_BARBERSHOP
  /\ \A c \in sse.evicted \cup sse.removed :
       /\ c \notin Registered
       /\ c \notin sse.timers
       /\ c \notin DOMAIN sse.clientMetadata
  /\ \A c \in sse.evicted :
       /\ c \in sse.ended
       /\ \A d \in Range(sse.clients[sse.addedTo[c]]) : c < d
  /\ \A c \in Registered :
       c \in DOMAIN sse.clientMetadata /\ sse.clientMetadata[c] = sse.addedTo[c]

\* a step that adds a client to a barbershop holding
\* MAX_CONNECTIONS_PER_BARBERSHOP clients drops exactly the head of its list,
\* ends it and appends the new client.
AddEvictsOldest ==
  \A s \in Shops :
    /\ sse'.next = sse.next + 1
    /\ sse'.addedTo[sse.next] = s
    /\ Len(sse.clients[s]) = MAX_CONNECTIONS_PER_BARBERSHOP
    => /\ sse'.clients[s] = Append(Tail(sse.clients[s]), sse.next)
       /\ Head(sse.clients[s]) \in sse'.ended
       /\ sse'.evicted = sse.evicted \cup {Head(sse.clients[s])}

\* C36: after any sequence of addClient, removeClient, connection timeouts
\* and sendEventToBarbershop calls each barbershop has at most
\* MAX_CONNECTIONS_PER_BARBERSHOP registered clients, adding a client to a
\* full barbershop evicts and ends the oldest one, and every client that was
\* evicted or removed has no pending timeout and no metadata entry.
BoundedFifoClients == []RegistryConsistent /\ [][AddEvictsOldest]_vars

\* the eleventh client of a barbershop evicted the first
EleventhEvictedFirst ==
  /\ Len(sse.clients["shopA"]) = MAX_CONNECTIONS_PER_BARBERSHOP
  /\ sse.evicted = {1}
  /\ Head(sse.clients["shopA"]) = 2
  /\ 1 \in sse.ended
  /\ 1 \notin sse.timers
  /\ 1 \notin DOMAIN sse.clientMetadata

====
